---- MODULE Spec2Model ----
(***************************************************************************)
(* Model of the batched dispatcher of the /api/audit/fast route            *)
(* (nextjs-app/src/app/api/audit/fast/route.ts, POST).                     *)
(*                                                                         *)
(* One request is modelled from its arrival to its answer.  Time is the    *)
(* value of Date.now() - startTime in milliseconds.  A text is the         *)
(* sequence of its tokens: a punctuation character, a blank, or a maximal  *)
(* run of word characters; the regular expressions of the code are         *)
(* evaluated on these sequences.  A number is kept in hundredths (80 is    *)
(* 0.8).  The record field timestamp is left out: nothing reads it.        *)
(*                                                                         *)
(* Spec is the dispatcher with OLLAMA_CONFIG as it is in the source,       *)
(* SpecNoBudget the dispatcher with the total time budget switched off,    *)
(* SpecParse the handling of one model response: parseRobustJSON and the   *)
(* record POST builds from its result.                                     *)
(***************************************************************************)
EXTENDS Integers, Sequences, FiniteSets, TLC

(***************************************************************************)
(* OLLAMA_CONFIG                                                           *)
(***************************************************************************)
maxRetries == 2
healthCheckTimeout == 10000
batchSize == 3
maxTotalTime == 600000
enableTotalTimeout == TRUE
backoffBase == 1000
OLLAMA_CONFIG ==
    [enableTotalTimeout |-> enableTotalTimeout, maxTotalTime |-> maxTotalTime]

(***************************************************************************)
(* Bounds of the model                                                     *)
(***************************************************************************)
MaxTargets == 4
BigStep == 600000
MaxElapsed == 600000

VARIABLES
    websites,    \* the request body's list
    config,      \* the fields of OLLAMA_CONFIG that checkTimeout reads
    main,        \* position of POST: "received", "probing", "wave", "done"
    now,         \* Date.now() - startTime
    i,           \* the batch loop's index (0-based, as in the code)
    results,     \* the results array
    response,    \* what the request is answered with
    caught,      \* the message of the error that reached the outer catch
    pc,          \* per target: "idle", "calling", "sleeping", "settled"
    retryCount,  \* per target
    calls,       \* per target of the batch being awaited: the ollama.chat
                 \* calls its promise has issued (dropped with the batch)
    delay,       \* per target: the delay given to the pending backoff timer
    wakeAt,      \* per target: when the pending backoff timer is due
    rec,         \* per target: the value its batch promise resolved with
    outcome,     \* per target: how its batch promise ended: "success",
                 \* "exhausted" (retries used up), "budget" (checkTimeout threw)
    overtaken,   \* some target settled while an earlier one of its wave had not
    thrown,      \* per target of the batch being awaited: the message of the
                 \* error its catch was entered with
    reply,       \* SpecParse: the response of ollama.chat being handled
    step,        \* SpecParse: "chat", "parsed", "built"
    returned,    \* SpecParse: what parseRobustJSON returned
    built,       \* SpecParse: the record built from it
    job,         \* SpecRoutes: the request as one of the three audit routes
                 \* handles it, and the Python process of /api/audit
    page,        \* SpecPage: the state of the audit page
    pair         \* SpecPair: two requests to /api/audit and the files they
                 \* share

vars == <<websites, config, main, now, i, results, response, caught, pc,
          retryCount, calls, delay, wakeAt, rec, outcome, overtaken, thrown,
          reply, step, returned, built, job, page, pair>>

\* What no step of the dispatcher changes.
parserVars == <<reply, step, returned, built>>
fixed == <<websites, config, parserVars, job, page, pair>>

Undefined == "undefined"

Min(S) == CHOOSE x \in S : \A y \in S : x <= y

\* The k-th target of a request: distinct urls, name and category optional.
Site(k) ==
    [url |-> k,
     name |-> IF k % 2 = 1 THEN "Site" ELSE Undefined,
     category |-> IF k % 3 = 0 THEN Undefined ELSE "Adult Content"]

Requests == {[k \in 1..n |-> Site(k)] : n \in 0..MaxTargets}

N == Len(websites)
Idx == 1..N

(***************************************************************************)
(* Texts                                                                   *)
(***************************************************************************)
DQ == "\""
SQ == "'"
SP == " "
NL == "\n"

\* The tokens that \s matches.
Blanks == {SP, NL}

\* The tokens that are not runs of word characters (\w).  A decimal number
\* is one token; an integer is a run of word characters.
Punctuation == {"{", "}", "]", ",", ":", DQ, SQ, SP, NL, ".", "/"}
Decimals == {"0.8", "0.95"}
WholeNumbers == {"0", "1", "18", "95", "150"}
IsWord(t) == t \notin Punctuation \cup Decimals

\* parseFloat of a number token, in hundredths.
Hundredths(t) ==
    CASE t = "0.8" -> 80
      [] t = "0.95" -> 95
      [] t = "0" -> 0
      [] t = "1" -> 100
      [] t = "18" -> 1800
      [] t = "95" -> 9500
      [] t = "150" -> 15000

\* String.toLowerCase, token by token.
Lower(t) ==
    CASE t = "Age" -> "age"
      [] t = "AGE" -> "age"
      [] t = "Verification" -> "verification"
      [] t = "VERIFICATION" -> "verification"
      [] t = "True" -> "true"
      [] t = "HAS_AGE_VERIFICATION" -> "has_age_verification"
      [] OTHER -> t

\* A plausible slip: the text searched as it was written.
toLowerCase_Identity(text) == text

toLowerCase(text) == [k \in DOMAIN text |-> Lower(text[k])]

\* The words that occur inside a longer run of word characters.
Within(t) ==
    IF t \in {"has_age_verification", "verification_type"}
    THEN {"verification"}
    ELSE {}

\* String.includes(phrase): the tokens of the phrase in a row; a phrase of
\* one word is also found inside a longer word.
includes(text, phrase) ==
    \E p \in 1..(Len(text) + 1 - Len(phrase)) :
        \A j \in 1..Len(phrase) :
            \/ text[p + j - 1] = phrase[j]
            \/ Len(phrase) = 1 /\ phrase[j] \in Within(text[p + j - 1])

\* The first position from p on that holds a token of S, or Len + 1.
NextAt(text, p, S) ==
    IF \E k \in p..Len(text) : text[k] \in S
    THEN Min({k \in p..Len(text) : text[k] \in S})
    ELSE Len(text) + 1

\* The first position from p on that holds no blank (\s*), or Len + 1.
SkipBlanks(text, p) ==
    IF \E k \in p..Len(text) : text[k] \notin Blanks
    THEN Min({k \in p..Len(text) : text[k] \notin Blanks})
    ELSE Len(text) + 1

At(text, p) == IF p \in 1..Len(text) THEN text[p] ELSE "end of text"

(***************************************************************************)
(* The values of JavaScript that the parser and the records hold           *)
(***************************************************************************)
JSUndefined == [type |-> "undefined", text |-> <<>>, num |-> 0]
JSNull == [type |-> "null", text |-> <<>>, num |-> 0]
JSBoolean(b) == [type |-> "boolean", text |-> <<IF b THEN "true" ELSE "false">>, num |-> 0]
JSNumber(h) == [type |-> "number", text |-> <<>>, num |-> h]
JSString(text) == [type |-> "string", text |-> text, num |-> 0]
Str(word) == JSString(<<word>>)

\* What  value || fallback  and  if (value)  test.
Truthy(value) ==
    CASE value.type = "boolean" -> value.text = <<"true">>
      [] value.type = "number" -> value.num # 0
      [] value.type = "string" -> value.text # <<>>
      [] OTHER -> FALSE

Or(value, fallback) == IF Truthy(value) THEN value ELSE fallback

Fields == {"has_age_verification", "verification_type", "confidence_score", "details"}
EmptyObject == [f \in Fields |-> JSUndefined]

(***************************************************************************)
(* parseRobustJSON: the extraction and the pre-processing                  *)
(***************************************************************************)
\* content.match(/\{[\s\S]*\}/): from the first { to the last }.
jsonMatch(content) ==
    LET from == NextAt(content, 1, {"{"})
    IN IF \E k \in (from + 1)..Len(content) : content[k] = "}"
       THEN SubSeq(content, from,
                   CHOOSE k \in from..Len(content) :
                       /\ content[k] = "}"
                       /\ \A l \in (k + 1)..Len(content) : content[l] # "}")
       ELSE <<>>

Quoted(key, value) == <<DQ, key, DQ, ":", SP, DQ>> \o value \o <<DQ>>

\* (\w+):  at p: a whole word with a colon right after it.
KeyAt(text, p) == IsWord(At(text, p)) /\ At(text, p + 1) = ":"

\* .replace(/(\w+):\s*([^",\s][^,}]*)/g, '"$1": "$2"')
RECURSIVE QuoteBareValues(_, _)
QuoteBareValues(text, p) ==
    IF p > Len(text) THEN <<>>
    ELSE LET q == SkipBlanks(text, p + 2)
             e == NextAt(text, q + 1, {",", "}"})
         IN IF KeyAt(text, p) /\ q <= Len(text) /\ text[q] \notin {DQ, ","} \cup Blanks
            THEN Quoted(text[p], SubSeq(text, q, e - 1)) \o QuoteBareValues(text, e)
            ELSE <<text[p]>> \o QuoteBareValues(text, p + 1)

\* .replace(/(\w+):\s*"([^"]*)"/g, '"$1": "$2"')
RECURSIVE QuoteKeysOfStrings(_, _)
QuoteKeysOfStrings(text, p) ==
    IF p > Len(text) THEN <<>>
    ELSE LET q == SkipBlanks(text, p + 2)
             e == NextAt(text, q + 1, {DQ})
         IN IF KeyAt(text, p) /\ At(text, q) = DQ /\ e <= Len(text)
            THEN Quoted(text[p], SubSeq(text, q + 1, e - 1)) \o QuoteKeysOfStrings(text, e + 1)
            ELSE <<text[p]>> \o QuoteKeysOfStrings(text, p + 1)

\* .replace(/(\w+):\s*null/g, '"$1": "null"') with literals {"null"}, and
\* .replace(/(\w+):\s*(true|false)/g, '"$1": "$2"') with {"true", "false"}
RECURSIVE QuoteLiterals(_, _, _)
QuoteLiterals(text, p, literals) ==
    IF p > Len(text) THEN <<>>
    ELSE LET q == SkipBlanks(text, p + 2)
         IN IF KeyAt(text, p) /\ At(text, q) \in literals
            THEN Quoted(text[p], <<text[q]>>) \o QuoteLiterals(text, q + 1, literals)
            ELSE <<text[p]>> \o QuoteLiterals(text, p + 1, literals)

preProcess(jsonString) ==
    QuoteLiterals(
        QuoteLiterals(
            QuoteKeysOfStrings(QuoteBareValues(jsonString, 1), 1),
            1, {"null"}),
        1, {"true", "false"})

(***************************************************************************)
(* JSON.parse of an object whose values are strings, numbers, true, false  *)
(* or null                                                                 *)
(***************************************************************************)
Thrown == [ok |-> FALSE, object |-> EmptyObject]
Parsed(object) == [ok |-> TRUE, object |-> object]

\* The value that starts at v, and the position after it (0: no value).
ValueAt(text, v) ==
    LET t == At(text, v)
        close == NextAt(text, v + 1, {DQ})
    IN CASE t = DQ /\ close <= Len(text)
                /\ \A k \in (v + 1)..(close - 1) : text[k] # NL ->
                [value |-> JSString(SubSeq(text, v + 1, close - 1)), next |-> close + 1]
         [] t \in {"true", "false"} -> [value |-> JSBoolean(t = "true"), next |-> v + 1]
         [] t = "null" -> [value |-> JSNull, next |-> v + 1]
         [] t \in Decimals \cup WholeNumbers -> [value |-> JSNumber(Hundredths(t)), next |-> v + 1]
         [] OTHER -> [value |-> JSUndefined, next |-> 0]

\* The members from p on, up to the closing brace and the end of the text.
RECURSIVE Members(_, _, _)
Members(text, p, object) ==
    LET key == ValueAt(text, SkipBlanks(text, p))
        colon == SkipBlanks(text, key.next)
        member == ValueAt(text, SkipBlanks(text, colon + 1))
        after == SkipBlanks(text, member.next)
        name == IF Len(key.value.text) = 1 THEN key.value.text[1] ELSE "another key"
        with == IF name \in Fields THEN [object EXCEPT ![name] = member.value] ELSE object
    IN IF key.next = 0 \/ key.value.type # "string" \/ At(text, colon) # ":"
          \/ member.next = 0
       THEN Thrown
       ELSE IF At(text, after) = "," THEN Members(text, after + 1, with)
       ELSE IF At(text, after) = "}" /\ SkipBlanks(text, after + 1) > Len(text)
       THEN Parsed(with)
       ELSE Thrown

JSONparse(text) ==
    LET open == SkipBlanks(text, 1)
        inside == SkipBlanks(text, open + 1)
    IN IF At(text, open) # "{" THEN Thrown
       ELSE IF At(text, inside) = "}"
       THEN (IF SkipBlanks(text, inside + 1) > Len(text) THEN Parsed(EmptyObject) ELSE Thrown)
       ELSE Members(text, open + 1, EmptyObject)

(***************************************************************************)
(* parseRobustJSON: the rewrites of the third attempt                      *)
(***************************************************************************)
\* .replace(/'/g, '"')
DoubleQuotes(text) == [k \in DOMAIN text |-> IF text[k] = SQ THEN DQ ELSE text[k]]

\* .replace(/(\w+):\s*/g, '"$1": ')
RECURSIVE QuoteKeys(_, _)
QuoteKeys(text, p) ==
    IF p > Len(text) THEN <<>>
    ELSE IF KeyAt(text, p)
    THEN <<DQ, text[p], DQ, ":", SP>> \o QuoteKeys(text, SkipBlanks(text, p + 2))
    ELSE <<text[p]>> \o QuoteKeys(text, p + 1)

\* .replace(/,(\s*[}\]])/g, '$1')
DropTrailingCommas(text) ==
    SelectSeq([k \in DOMAIN text |->
                  IF text[k] = "," /\ At(text, SkipBlanks(text, k + 1)) \in {"}", "]"}
                  THEN "dropped" ELSE text[k]],
              LAMBDA t : t # "dropped")

\* .replace(/:\s*(true|false)\s*([,}])/g, ':"$1"$2'), the same with
\* (\d+\.\d+) and with null
RECURSIVE QuoteValues(_, _, _)
QuoteValues(text, p, literals) ==
    IF p > Len(text) THEN <<>>
    ELSE LET q == SkipBlanks(text, p + 1)
             s == SkipBlanks(text, q + 1)
         IN IF text[p] = ":" /\ At(text, q) \in literals /\ At(text, s) \in {",", "}"}
            THEN <<":", DQ, text[q], DQ, text[s]>> \o QuoteValues(text, s + 1, literals)
            ELSE <<text[p]>> \o QuoteValues(text, p + 1, literals)

\* .replace(/[\x00-\x1F\x7F-\x9F]/g, '')
StripControl(text) == SelectSeq(text, LAMBDA t : t # NL)

\* .replace(/\s+/g, ' ')
RECURSIVE CollapseBlanks(_, _)
CollapseBlanks(text, p) ==
    IF p > Len(text) THEN <<>>
    ELSE IF text[p] \in Blanks
    THEN <<SP>> \o CollapseBlanks(text, SkipBlanks(text, p))
    ELSE <<text[p]>> \o CollapseBlanks(text, p + 1)

\* .replace(/:\s*""\s*([,}])/g, ':"empty"$1')
RECURSIVE FillEmptyStrings(_, _)
FillEmptyStrings(text, p) ==
    IF p > Len(text) THEN <<>>
    ELSE LET q == SkipBlanks(text, p + 1)
             s == SkipBlanks(text, q + 2)
         IN IF /\ text[p] = ":" /\ At(text, q) = DQ /\ At(text, q + 1) = DQ
               /\ At(text, s) \in {",", "}"}
            THEN <<":", DQ, "empty", DQ, text[s]>> \o FillEmptyStrings(text, s + 1)
            ELSE <<text[p]>> \o FillEmptyStrings(text, p + 1)

\* .replace(/([^"])\s*(\w+):\s*/g, '$1, "$2": ')   (the character before the
\* key taken as a whole token)
RECURSIVE SeparateKeys(_, _)
SeparateKeys(text, p) ==
    IF p > Len(text) THEN <<>>
    ELSE LET q == SkipBlanks(text, p + 1)
         IN IF text[p] # DQ /\ KeyAt(text, q)
            THEN <<text[p], ",", SP, DQ, text[q], DQ, ":", SP>>
                     \o SeparateKeys(text, SkipBlanks(text, q + 2))
            ELSE <<text[p]>> \o SeparateKeys(text, p + 1)

\* .replace(/\{\s*(\w+):\s*/g, '{ "$1": ')
RECURSIVE QuoteFirstKey(_, _)
QuoteFirstKey(text, p) ==
    IF p > Len(text) THEN <<>>
    ELSE LET q == SkipBlanks(text, p + 1)
         IN IF text[p] = "{" /\ KeyAt(text, q)
            THEN <<"{", SP, DQ, text[q], DQ, ":", SP>>
                     \o QuoteFirstKey(text, SkipBlanks(text, q + 2))
            ELSE <<text[p]>> \o QuoteFirstKey(text, p + 1)

\* String.trim
trim(text) ==
    IF \A k \in DOMAIN text : text[k] \in Blanks THEN <<>>
    ELSE SubSeq(text, SkipBlanks(text, 1),
                CHOOSE k \in DOMAIN text :
                    /\ text[k] \notin Blanks
                    /\ \A l \in (k + 1)..Len(text) : text[l] \in Blanks)

manualFixes(preProcessedJson) ==
    LET a == QuoteKeys(DoubleQuotes(preProcessedJson), 1)
        b == QuoteValues(DropTrailingCommas(a), 1, {"true", "false"})
        c == CollapseBlanks(StripControl(QuoteValues(b, 1, Decimals)), 1)
        d == FillEmptyStrings(QuoteValues(c, 1, {"null"}), 1)
        e == QuoteFirstKey(SeparateKeys(d, 1), 1)
    IN trim(QuoteLiterals(QuoteLiterals(e, 1, Decimals), 1, WholeNumbers))

(***************************************************************************)
(* parseRobustJSON: the patterns of the fourth attempt                     *)
(***************************************************************************)
Range(text) == {text[k] : k \in DOMAIN text}

\* ["\s]*
QuotesAndBlanks == {DQ} \cup Blanks

\* key["\s]*:  (case-insensitive): the positions of the colons that follow
\* the key.
ColonsAfter(content, key) ==
    {c \in DOMAIN content :
        /\ content[c] = ":"
        /\ \E p \in 1..(c - 1) :
              /\ Lower(content[p]) = key
              /\ \A k \in (p + 1)..(c - 1) : content[k] \in QuotesAndBlanks}

\* The position after the longest ["\s]* that follows the colon at c.
ValueStart(content, c) == 
    IF \E k \in (c + 1)..Len(content) : content[k] \notin QuotesAndBlanks
    THEN Min({k \in (c + 1)..Len(content) : content[k] \notin QuotesAndBlanks})
    ELSE Len(content) + 1

\* ["\s]*" followed by one character that is no quote: the quotes after the
\* colon at c that something other than a quote follows.
OpeningQuotes(content, c) ==
    {d \in (c + 1)..(ValueStart(content, c) - 1) :
        /\ content[d] = DQ
        /\ d + 1 <= Len(content)
        /\ content[d + 1] # DQ}

\* The longest ["\s]* is tried first: the last of the quotes of S (0: none).
Last(S) == IF S = {} THEN 0 ELSE CHOOSE d \in S : \A e \in S : e <= d

OpeningQuote(content, c) == Last(OpeningQuotes(content, c))

\* The same for "([^"]+)": the closing quote has to be there.
ClosedQuote(content, c) ==
    Last({d \in OpeningQuotes(content, c) : NextAt(content, d + 1, {DQ}) <= Len(content)})

\* The tokens from v up to the first token of S or the end.
RunUntil(content, v, S) == SubSeq(content, v, NextAt(content, v, S) - 1)

\* ([^",\s}]+) after the colon at c
BareRun(content, c) ==
    RunUntil(content, ValueStart(content, c), {DQ, ",", "}"} \cup Blanks)

\* "([^"]+) after the colon at c
QuotedRun(content, c) == RunUntil(content, OpeningQuote(content, c) + 1, {DQ})

\* The first match of a pattern: the first colon after the key at which the
\* pattern matches (0: content.match gives null).
FirstMatch(colons) == IF colons = {} THEN 0 ELSE Min(colons)

\* .replace(/"/g, '').trim()
Unquoted(run) == trim(SelectSeq(run, LAMBDA t : t # DQ))

\* hasVerificationPatterns: the second pattern matches where the first does,
\* the fourth where the third does.
extractHasVerification(content) ==
    LET colons == ColonsAfter(content, "has_age_verification")
        first == FirstMatch({c \in colons :
                     Lower(At(content, ValueStart(content, c))) \in {"true", "false"}})
        third == FirstMatch({c \in colons : BareRun(content, c) # <<>>})
    IN IF first # 0
       THEN JSBoolean(Lower(content[ValueStart(content, first)]) = "true")
       ELSE IF third # 0
       THEN JSBoolean(/\ "null" \notin Range(BareRun(content, third))
                      /\ toLowerCase(BareRun(content, third))
                             \in {<<"true">>, <<"yes">>, <<"1">>})
       ELSE JSUndefined

\* verificationTypePatterns: where the third or the fourth pattern matches
\* and the first two do not, nothing is assigned.
extractVerificationType(content) ==
    LET colons == ColonsAfter(content, "verification_type")
        first == FirstMatch({c \in colons : OpeningQuote(content, c) # 0})
        second == FirstMatch({c \in colons : BareRun(content, c) # <<>>})
        run == IF first # 0 THEN QuotedRun(content, first) ELSE BareRun(content, second)
    IN IF first = 0 /\ second = 0 THEN JSUndefined
       ELSE IF "null" \in Range(run) THEN Str("none")
       ELSE JSString(Unquoted(run))

\* Normalize score to 0-1 range if it's not already
Normalized(score) == IF score > 100 THEN score \div 100 ELSE score

\* confidencePatterns: a pattern whose first match gives a score outside
\* [0, 1] is passed over.  The second and the fourth pattern read the number
\* the first one reads.
extractConfidence(content) ==
    LET Score(c) == Normalized(Hundredths(content[ValueStart(content, c)]))
        Numbered(key) ==
            FirstMatch({c \in ColonsAfter(content, key) :
                           At(content, ValueStart(content, c)) \in Decimals \cup WholeNumbers})
        first == Numbered("confidence_score")
        third == Numbered("confidence")
    IN IF first # 0 /\ Score(first) >= 0 /\ Score(first) <= 100
       THEN JSNumber(Score(first))
       ELSE IF third # 0 /\ Score(third) >= 0 /\ Score(third) <= 100
       THEN JSNumber(Score(third))
       ELSE JSUndefined

\* detailsPatterns: the third pattern matches without a capture where the
\* first two do not match.
extractDetails(content) ==
    LET colons == ColonsAfter(content, "details")
        first == FirstMatch({c \in colons : ClosedQuote(content, c) # 0})
        second == FirstMatch({c \in colons : ValueStart(content, c) <= Len(content)})
    IN IF first # 0
       THEN JSString(Unquoted(RunUntil(content, ClosedQuote(content, first) + 1, {DQ})))
       ELSE IF second # 0
       THEN JSString(Unquoted(RunUntil(content, ValueStart(content, second), {DQ})))
       ELSE JSUndefined

\* The phrases looked for in a text that gave no has_age_verification.
Phrases4 == {<<"age", SP, "verification">>, <<"birth", SP, "date">>,
             <<"age", SP, "gate">>, <<"verification">>}
Phrases5 == Phrases4 \cup {<<"over", SP, "18">>, <<"adult", SP, "content">>}

Mentions(content, phrases) ==
    \E phrase \in phrases : includes(toLowerCase(content), phrase)

\* The key-value pairs after "Set defaults if not found".
keyValuePairs(content) ==
    LET has == IF extractHasVerification(content) = JSUndefined
               THEN JSBoolean(Mentions(content, Phrases4))
               ELSE extractHasVerification(content)
    IN [f \in Fields |->
           CASE f = "has_age_verification" -> has
             [] f = "verification_type" ->
                    Or(extractVerificationType(content),
                       IF Truthy(has) THEN Str("detected") ELSE Str("none"))
             [] f = "confidence_score" ->
                    Or(extractConfidence(content),
                       IF Truthy(has) THEN JSNumber(70) ELSE JSNumber(50))
             [] f = "details" ->
                    Or(extractDetails(content), Str("Parsed from AI response"))]

fallbackResult(content) ==
    LET hasVerification == Mentions(content, Phrases5)
    IN [f \in Fields |->
           CASE f = "has_age_verification" -> JSBoolean(hasVerification)
             [] f = "verification_type" ->
                    IF hasVerification THEN Str("detected") ELSE Str("none")
             [] f = "confidence_score" ->
                    IF hasVerification THEN JSNumber(60) ELSE JSNumber(40)
             [] f = "details" -> Str("Parsed from raw content analysis")]

(***************************************************************************)
(* parseRobustJSON                                                         *)
(***************************************************************************)
Null == [ok |-> FALSE, object |-> EmptyObject]

\* What a call of parseRobustJSON gives: the value returned, the attempts
\* made in their order, and whether the call raised.
Returned(value, attempts) ==
    [ok |-> value.ok, object |-> value.object, attempts |-> attempts, raised |-> FALSE]
Raised == [ok |-> FALSE, object |-> EmptyObject, attempts |-> <<>>, raised |-> TRUE]

\* Attempt 1: Direct JSON parsing
attempt1(message) == JSONparse(preProcess(jsonMatch(message.content)))

\* Attempt 2: JSON.parse(jsonrepair(preProcessedJson)).  The library is not
\* part of the repository: what it makes of a text comes with the text.
attempt2(message) == message.jsonrepair

\* Attempt 3: Manual fixes for common AI model JSON issues
attempt3(message) == JSONparse(manualFixes(preProcess(jsonMatch(message.content))))

\* Attempt 4: key-value pairs, returned if (Object.keys(keyValuePairs).length > 0)
attempt4(message) ==
    IF \E f \in Fields : keyValuePairs(message.content)[f] # JSUndefined
    THEN Parsed(keyValuePairs(message.content))
    ELSE Thrown

\* Final fallback
attempt5(message) == Parsed(fallbackResult(message.content))

\* The attempts in their order.
attempts(message) ==
    <<attempt1(message), attempt2(message), attempt3(message), attempt4(message),
      attempt5(message)>>

\* A plausible slip: content.match outside the try, so that a content that
\* is no string raises out of the function.
parseRobustJSON_NoCatch(message) ==
    IF ~message.isString THEN Raised
    ELSE IF jsonMatch(message.content) = <<>> THEN Returned(Null, <<>>)
    ELSE IF attempt1(message).ok THEN Returned(attempt1(message), <<1>>)
    ELSE IF attempt2(message).ok THEN Returned(attempt2(message), <<1, 2>>)
    ELSE IF attempt3(message).ok THEN Returned(attempt3(message), <<1, 2, 3>>)
    ELSE IF attempt4(message).ok THEN Returned(attempt4(message), <<1, 2, 3, 4>>)
    ELSE Returned(attempt5(message), <<1, 2, 3, 4, 5>>)

\* A plausible slip: the manual fixes tried before the repair library.
parseRobustJSON_FixesFirst(message) ==
    IF ~message.isString THEN Returned(Null, <<>>)
    ELSE IF jsonMatch(message.content) = <<>> THEN Returned(Null, <<>>)
    ELSE IF attempt1(message).ok THEN Returned(attempt1(message), <<1>>)
    ELSE IF attempt3(message).ok THEN Returned(attempt3(message), <<1, 3>>)
    ELSE IF attempt2(message).ok THEN Returned(attempt2(message), <<1, 3, 2>>)
    ELSE IF attempt4(message).ok THEN Returned(attempt4(message), <<1, 3, 2, 4>>)
    ELSE Returned(attempt5(message), <<1, 3, 2, 4, 5>>)

\* A plausible slip: no early return for a text without braces.
parseRobustJSON_NoEarlyReturn(message) ==
    IF ~message.isString THEN Returned(Null, <<>>)
    ELSE IF attempt1(message).ok THEN Returned(attempt1(message), <<1>>)
    ELSE IF attempt2(message).ok THEN Returned(attempt2(message), <<1, 2>>)
    ELSE IF attempt3(message).ok THEN Returned(attempt3(message), <<1, 2, 3>>)
    ELSE IF attempt4(message).ok THEN Returned(attempt4(message), <<1, 2, 3, 4>>)
    ELSE Returned(attempt5(message), <<1, 2, 3, 4, 5>>)

parseRobustJSON(message) ==
    IF ~message.isString THEN Returned(Null, <<>>)
    ELSE IF jsonMatch(message.content) = <<>> THEN Returned(Null, <<>>)
    ELSE IF attempt1(message).ok THEN Returned(attempt1(message), <<1>>)
    ELSE IF attempt2(message).ok THEN Returned(attempt2(message), <<1, 2>>)
    ELSE IF attempt3(message).ok THEN Returned(attempt3(message), <<1, 2, 3>>)
    ELSE IF attempt4(message).ok THEN Returned(attempt4(message), <<1, 2, 3, 4>>)
    ELSE Returned(attempt5(message), <<1, 2, 3, 4, 5>>)

(***************************************************************************)
(* The responses of ollama.chat                                            *)
(***************************************************************************)
\* The object asked for, as a model may write it.
Key(name, quoted) == IF quoted THEN <<DQ, name, DQ>> ELSE <<name>>

Member(name, quoted, value) == Key(name, quoted) \o <<":", SP>> \o value

HasValues == {<<"true">>, <<"false">>}
TypeValues == {<<DQ, "popup", DQ>>, <<"popup">>, <<"null">>}
ConfidenceValues == {<<"0.8">>, <<"95">>, <<"0">>, <<DQ, "0.8", DQ>>}
DetailsValues ==
    {<<DQ, "Found", SP, "a", SP, "popup", DQ>>,
     <<DQ, DQ>>,
     <<DQ, "Note", ":", SP, "a", SP, "popup", DQ>>,
     <<"none", SP, "found">>,
     <<>>}
Flaws == {"none", "trailing comma", "single quotes", "missing comma",
          "prose around", "lines"}

\* has, type, confidence and details are the values as written; details
\* <<>> leaves the member out.
JsonText(quoted, has, type, confidence, details, flaw) ==
    LET comma == IF flaw = "lines" THEN <<",", NL>> ELSE <<",", SP>>
        first == Member("has_age_verification", quoted, has)
        rest == Member("verification_type", quoted, type) \o comma
                    \o Member("confidence_score", quoted, confidence)
                    \o (IF details = <<>> THEN <<>>
                        ELSE comma \o Member("details", quoted, details))
        members == first \o (IF flaw = "missing comma" THEN <<SP>> ELSE comma) \o rest
        object == CASE flaw = "trailing comma" -> <<"{">> \o members \o <<",", "}">>
                    [] flaw = "lines" -> <<"{", NL>> \o members \o <<NL, "}">>
                    [] OTHER -> <<"{">> \o members \o <<"}">>
    IN CASE flaw = "single quotes" ->
                [k \in DOMAIN object |-> IF object[k] = DQ THEN SQ ELSE object[k]]
         [] flaw = "prose around" ->
                <<"Here", SP, "is", SP, "the", SP, "JSON", ":", SP>> \o object
                    \o <<SP, "Done", ".">>
         [] OTHER -> object

JsonTexts ==
    {JsonText(quoted, has, type, confidence, details, flaw) :
        quoted \in BOOLEAN, has \in HasValues, type \in TypeValues,
        confidence \in ConfidenceValues, details \in DetailsValues, flaw \in Flaws}

\* Texts that are no such object.
OtherTexts ==
    {<<>>,
     <<SP>>,
     <<"This", SP, "site", SP, "uses", SP, "Age", SP, "Verification">>,
     <<"No", SP, "checks", SP, "found">>,
     <<"headers", ":", SP, "confidence_score", ":", SP, "0.95", ",", SP,
       "has_age_verification", ":", SP, "true">>,
     <<"visitors", SP, "must", SP, "be", SP, "over", SP, "18">>,
     <<"{", DQ, "has_age_verification", DQ, ":", SP, "false", ",", SP,
       DQ, "verification_type", DQ, ":", SP, DQ, "none", DQ>>,
     <<"{", "age", SP, "verification", "}">>,
     <<"{", "}">>,
     <<"{", DQ, "has_age_verification", DQ, ":", SP, "true", ",", SP,
       DQ, "verification_type", DQ, ":", SP, DQ, DQ, ",", SP,
       DQ, "confidence_score", DQ, ":", SP, "1", ",", SP,
       DQ, "details", DQ, ":", SP, DQ, "x", DQ, "}">>,
     <<"has_age_verification", ":", SP, "yes", SP, "{", "confidence", ":", SP, "18", "}">>,
     <<"confidence_score", ":", SP, "0", SP, "{", "age", SP, "gate", "}">>,
     <<"confidence_score", ":", SP, "150", SP, "{", "age", SP, "gate", "}">>,
     <<"{", "over", SP, "18", "}">>}

\* What JSON.parse(jsonrepair(preProcessedJson)) may give.
RepairedObject ==
    [f \in Fields |->
        CASE f = "has_age_verification" -> JSBoolean(TRUE)
          [] f = "verification_type" -> Str("popup")
          [] f = "confidence_score" -> JSNumber(80)
          [] f = "details" -> JSString(<<"Found", SP, "a", SP, "popup">>)]
Repairs == {Thrown, Parsed(RepairedObject), Parsed(EmptyObject)}

\* response.message: its content, whether the content is a string, and what
\* jsonrepair makes of it.
Message(content, repaired) ==
    [isString |-> TRUE, content |-> content, jsonrepair |-> repaired]
NotAString == [isString |-> FALSE, content |-> <<>>, jsonrepair |-> Thrown]
Messages ==
    {Message(content, repaired) :
        content \in JsonTexts \cup OtherTexts, repaired \in Repairs}
        \cup {NotAString}

\* The two responses the dispatcher is run with: the JSON object asked for,
\* and a text with no braces.
JsonContent ==
    Message(JsonText(TRUE, <<"true">>, <<DQ, "popup", DQ>>, <<"0.8">>,
                     <<DQ, "Found", SP, "a", SP, "popup", DQ>>, "none"),
            Thrown)
PlainContent ==
    Message(<<"This", SP, "site", SP, "uses", SP, "Age", SP, "Verification">>, Thrown)
Contents == {JsonContent, PlainContent}

(***************************************************************************)
(* Error messages                                                          *)
(***************************************************************************)
NoError == <<>>

\* Errors ollama.chat rejects with.
ChatErrors ==
    {<<"connect", SP, "ETIMEDOUT">>,
     <<"connect", SP, "ECONNREFUSED">>,
     <<"getaddrinfo", SP, "ENOTFOUND">>}

\* The SyntaxError of request.json() for a body that is no JSON.
SyntaxErrorMessage ==
    <<"Unexpected", SP, "end", SP, "of", SP, "JSON", SP, "input">>

\* The TypeError of reading response.message with response undefined.
TypeErrorMessage ==
    <<"Cannot", SP, "read", SP, "properties", SP, "of", SP, "undefined">>

\* The message of the error thrown when the retries are used up: it embeds
\* the last error.
ExhaustedMessage(error) ==
    <<"Ollama", SP, "request", SP, "failed", SP, "after", SP, "2", SP,
      "retries", ":", SP, "Error", ":", SP>> \o error

\* A plausible slip: a message without the words the catch looks for.
TimedOutMessage_Reworded ==
    <<"Audit", SP, "process", SP, "exceeded", SP, "600", SP, "seconds">>

\* The message of the error checkTimeout throws.
TimedOutMessage ==
    <<"Audit", SP, "process", SP, "timed", SP, "out", SP, "after", SP, "600",
      SP, "seconds">>

TimedOut == <<"timed", SP, "out">>

(***************************************************************************)
(* The records                                                             *)
(***************************************************************************)
Record(website, has, type, conf, details) ==
    [website |-> website.url, has_age_verification |-> has,
     verification_type |-> type, confidence_score |-> conf, details |-> details,
     name |-> website.name, category |-> website.category]

NoRecord == Record([url |-> 0, name |-> Undefined, category |-> Undefined],
                   JSUndefined, JSUndefined, JSUndefined, JSUndefined)

RecordOf(website, object) ==
    Record(website, object["has_age_verification"], object["verification_type"],
           object["confidence_score"], object["details"])

\* The four fields of the record of the catch of the inner try.
FailedToParse ==
    [f \in Fields |->
        CASE f = "has_age_verification" -> JSBoolean(FALSE)
          [] f = "verification_type" -> Str("unknown")
          [] f = "confidence_score" -> JSNumber(0)
          [] f = "details" -> Str("Failed to parse Ollama response")]

\* The four fields of the record the inner try builds from what
\* parseRobustJSON gave.  Without a result the text is searched, which
\* throws into the catch of the inner try when the content is no string.
resultFields(message, parsed) ==
    IF parsed.raised THEN FailedToParse
    ELSE IF parsed.ok
    THEN [f \in Fields |->
             CASE f = "has_age_verification" -> Or(parsed.object[f], JSBoolean(FALSE))
               [] f = "verification_type" -> Or(parsed.object[f], Str("unknown"))
               [] f = "confidence_score" -> Or(parsed.object[f], JSNumber(0))
               [] f = "details" -> Or(parsed.object[f], Str("No details provided"))]
    ELSE IF ~message.isString THEN FailedToParse
    ELSE LET hasVerification == Mentions(message.content, Phrases4)
         IN [f \in Fields |->
                CASE f = "has_age_verification" -> JSBoolean(hasVerification)
                  [] f = "verification_type" ->
                         IF hasVerification THEN Str("detected") ELSE Str("none")
                  [] f = "confidence_score" ->
                         IF hasVerification THEN JSNumber(70) ELSE JSNumber(50)
                  [] f = "details" -> JSString(message.content)]

\* The fields for the responses the dispatcher is run with.
handled == [message \in Contents |-> resultFields(message, parseRobustJSON(message))]

\* The record built from a response (the inner try of a batch promise).
SuccessRecord(website, message) == RecordOf(website, handled[message])

\* A plausible slip: the failure record copied from the parse-error record,
\* without the failure label.
FailureRecord_Unlabeled(website, message) == RecordOf(website, FailedToParse)

\* A plausible slip: ECONNREFUSED among the markers of a timeout.
FailureRecord_Refused(website, message) ==
    LET isTimeout ==
            \/ includes(message, <<"timeout">>)
            \/ includes(message, TimedOut)
            \/ includes(message, <<"ETIMEDOUT">>)
            \/ includes(message, <<"ENOTFOUND">>)
            \/ includes(message, <<"ECONNREFUSED">>)
    IN Record(website, JSBoolean(FALSE),
              IF isTimeout THEN Str("timeout") ELSE Str("error"),
              JSNumber(0),
              IF isTimeout
              THEN Str("Request timed out - Ollama service may be overloaded or unavailable")
              ELSE JSString(<<"Error", ":", SP>> \o message))

\* The record built by the catch of a batch promise from the error message.
FailureRecord(website, message) ==
    LET isTimeout ==
            \/ includes(message, <<"timeout">>)
            \/ includes(message, TimedOut)
            \/ includes(message, <<"ETIMEDOUT">>)
            \/ includes(message, <<"ENOTFOUND">>)
    IN Record(website, JSBoolean(FALSE),
              IF isTimeout THEN Str("timeout") ELSE Str("error"),
              JSNumber(0),
              IF isTimeout
              THEN Str("Request timed out - Ollama service may be overloaded or unavailable")
              ELSE JSString(<<"Error", ":", SP>> \o message))

(***************************************************************************)
(* checkTimeout                                                            *)
(***************************************************************************)
\* A plausible slip: the comparison of checkTimeout turned round.
BudgetExceeded_Flipped(elapsed) ==
    /\ config.enableTotalTimeout
    /\ config.maxTotalTime > 0
    /\ elapsed < config.maxTotalTime

\* A plausible slip: checkTimeout without its early return.
BudgetExceeded_NoSwitch(elapsed) == elapsed > config.maxTotalTime

\* checkTimeout throws.
BudgetExceeded(elapsed) ==
    /\ config.enableTotalTimeout
    /\ config.maxTotalTime > 0
    /\ elapsed > config.maxTotalTime

\* while (retryCount <= maxRetries)
MayAttempt(count) == count <= maxRetries

\* A plausible slip: one attempt too many before giving up.
Exhausted_OneMore(count) == count > maxRetries + 1

\* if (retryCount > maxRetries) throw
Exhausted(count) == count > maxRetries

\* A plausible slip: a constant backoff.
Backoff_Constant(count) == backoffBase

\* setTimeout(resolve, 1000 * retryCount)
Backoff(count) == backoffBase * count

\* A plausible slip: websites.slice(i, batchSize).
Batch_ShortSlice(from) == {k \in Idx : from < k /\ k <= batchSize}

\* websites.slice(i, i + batchSize), as the set of 1-based positions
Batch(from) == {k \in Idx : from < k /\ k <= from + batchSize}

\* A plausible slip: the records of a batch collected back to front.
BatchResults_Reversed(from) ==
    [k \in 1..Cardinality(Batch(from)) |-> rec[from + Cardinality(Batch(from)) + 1 - k]]

\* A plausible slip: the records taken from the start of the list in every
\* wave.
BatchResults_FromStart(from) ==
    [k \in 1..Cardinality(Batch(from)) |-> rec[k]]

\* await Promise.all(batchPromises): the records in the order of the batch
BatchResults(from) ==
    [k \in 1..Cardinality(Batch(from)) |-> rec[from + k]]

(***************************************************************************)
(* The three audit routes and the audit page                               *)
(***************************************************************************)
Routes == {"fast", "bridge", "stream"}

\* What request.json() gives: a body with the list, a body without a
\* websites property, or a rejection for a body that is no JSON.
Bodies == {"list", "no list", "no JSON"}

\* A request that has arrived at a route: nothing written, nothing spawned.
\*   at        "received", "awaiting" (callPythonBackend), "answered"
\*   tempFile  temp_websites.txt exists
\*   python    "none", "running", "killed", "failed", "closed"
\*   timer     the 10-minute timer is pending
\*   promise   of callPythonBackend: "none", "pending", "resolved", "rejected"
\*   signal    "none", or "SIGTERM" once pythonProcess.kill was called
\*   events    what has been enqueued on the stream
\*   closed    controller.close() was called on the stream
\*   late      the callbacks that called enqueue or close on the closed stream
\*   currentIndex  of the stream route
\*   summary   the process has printed its summary
\*   response  "none", a status, "stream", or "threw" (the handler rejected)
Job(route, body) ==
    [route |-> route, body |-> body, at |-> "received", tempFile |-> FALSE,
     python |-> "none", timer |-> FALSE, promise |-> "none", signal |-> "none",
     events |-> <<>>, closed |-> FALSE, late |-> {}, currentIndex |-> 0,
     summary |-> FALSE, response |-> "none"]

\* An event of the stream; processed is results.length in the 'complete'
\* events, and the other events carry no results.
Event(type, list) == [type |-> type, results |-> list, processed |-> Len(list)]

\* What the Python process writes to its output file: a result per URL of
\* the temp file.
fileResults == [k \in Idx |-> websites[k].url]

\* The value of auditReport: null, or a report.
Report(set, total, processed, entries) ==
    [set |-> set, totalWebsites |-> total, processedWebsites |-> processed,
     results |-> entries]

\* The state of the audit page as useState initializes it, with
\*   submitted  the websites of the render whose startAudit is running
\*   inFlight   the calls of startAudit that await their fetch
\*   timer      the 10-minute timer of the pending fetch
\*   reportFrom what auditReport was made from: "none", "api", "demo"
AuditPage(open) ==
    [open |-> open, websites |-> <<>>, isAuditing |-> FALSE,
     auditReport |-> Report(FALSE, 0, 0, <<>>), isDemoMode |-> FALSE,
     isUsingRealAPI |-> FALSE, submitted |-> <<>>, inFlight |-> 0,
     timer |-> FALSE, reportFrom |-> "none"]

\* The audit page before it is opened.
ClosedPage == AuditPage(FALSE)

\* A request to /api/audit beside another one.  Its websites are known by
\* the number of the request.
\*   at       "none", "received", "awaiting", "answered"
\*   python   "none", "running", "done", "failed", "closed"
\*   urls     the request whose URLs the process read (0: none)
\*   promise  of callPythonBackend
\*   results  the request whose URLs the results are for (0: none)
Request(at) ==
    [at |-> at, python |-> "none", urls |-> 0, promise |-> "none",
     results |-> 0, response |-> "none"]

\* Two requests and the files of the working directory:
\*   tempFile  the request whose URLs temp_websites.txt holds (0: no file)
\*   outputs   the temp_results_ files of audit_data in the order of their
\*             names, each the request whose URLs its results are for
Pair(at) ==
    [tempFile |-> 0, outputs |-> <<>>, request |-> [r \in 1..2 |-> Request(at)]]

\* No second request in the model.
NoPair == Pair("none")

(***************************************************************************)
(* Init                                                                    *)
(***************************************************************************)
\* A request has arrived and nothing has been done for it.
Arrived ==
    /\ main = "received"
    /\ now = 0
    /\ i = 0
    /\ results = <<>>
    /\ response = "none"
    /\ caught = NoError
    /\ pc = [k \in Idx |-> "idle"]
    /\ retryCount = [k \in Idx |-> 0]
    /\ calls = [k \in Idx |-> 0]
    /\ delay = [k \in Idx |-> 0]
    /\ wakeAt = [k \in Idx |-> 0]
    /\ rec = [k \in Idx |-> NoRecord]
    /\ outcome = [k \in Idx |-> "none"]
    /\ overtaken = FALSE
    /\ thrown = [k \in Idx |-> NoError]

\* No response is being handled on its own.
NoReply ==
    /\ reply = NotAString
    /\ step = "none"
    /\ returned = Returned(Null, <<>>)
    /\ built = NoRecord

\* A request to /api/audit/fast, whose body holds the list or is no JSON,
\* and no page in the model.
Alone ==
    /\ \E body \in {"list", "no JSON"} :
          /\ body = "no JSON" => websites = <<>>
          /\ job = Job("fast", body)
    /\ page = ClosedPage
    /\ pair = NoPair

Init ==
    /\ websites \in Requests
    /\ config = OLLAMA_CONFIG
    /\ Arrived
    /\ NoReply
    /\ Alone

targetVars == <<pc, retryCount, calls, delay, wakeAt, rec, outcome, overtaken, thrown>>

(***************************************************************************)
(* POST: validation and the liveness probe                                 *)
(***************************************************************************)
\* if (!websites || websites.length === 0) return 400; else the probe starts.
Receive ==
    /\ main = "received"
    /\ job.route = "fast"
    /\ job.body # "no JSON"
    /\ IF N = 0
       THEN /\ main' = "done"
            /\ response' = "400"
       ELSE /\ main' = "probing"
            /\ response' = response
    /\ UNCHANGED <<fixed, now, i, results, caught, targetVars>>

\* The outer catch.  Its response object reads results and websites, which
\* are declared inside the try block: building it raises a ReferenceError,
\* so the handler rejects instead of answering 408 or 500.
OuterCatch(message) ==
    /\ main' = "done"
    /\ caught' = message
    /\ response' = "threw"

\* request.json() rejects: the body is no JSON, so there is no list.
ReceiveMalformed ==
    /\ main = "received"
    /\ job.route = "fast"
    /\ job.body = "no JSON"
    /\ OuterCatch(SyntaxErrorMessage)
    /\ UNCHANGED <<fixed, now, i, results, targetVars>>

\* One iteration of the batch loop up to the first await of every batch
\* promise: checkTimeout, slice, and for each target of the batch
\* checkTimeout and the first ollama.chat.
StartWave(from) ==
    IF BudgetExceeded(now)
    THEN /\ OuterCatch(TimedOutMessage)
         /\ calls' = [k \in Idx |-> 0]
         /\ UNCHANGED pc
    ELSE /\ main' = "wave"
         /\ pc' = [k \in Idx |-> IF k \in Batch(from) THEN "calling" ELSE pc[k]]
         /\ calls' = [k \in Idx |-> IF k \in Batch(from) THEN 1 ELSE 0]
         /\ UNCHANGED <<caught, response>>

\* ollama.list() answers before the health check timer is due.
ProbeSucceeds ==
    /\ main = "probing"
    /\ now < healthCheckTimeout
    /\ StartWave(0)
    /\ UNCHANGED <<fixed, now, i, results, retryCount, delay, wakeAt, rec, outcome,
                   overtaken, thrown>>

\* A plausible slip: the 503 branch without its return.
ProbeFails_NoReturn ==
    /\ main = "probing"
    /\ response' = "503"
    /\ main' = "wave"
    /\ pc' = [k \in Idx |-> IF k \in Batch(0) THEN "calling" ELSE pc[k]]
    /\ calls' = [k \in Idx |-> IF k \in Batch(0) THEN 1 ELSE 0]
    /\ UNCHANGED <<fixed, now, i, results, caught, retryCount, delay, wakeAt, rec, outcome,
                   overtaken, thrown>>

\* ollama.list() rejects, or the health check timer fires first.
ProbeFails ==
    /\ main = "probing"
    /\ \E cause \in {"rejected", "timer"} : cause = "timer" => now >= healthCheckTimeout
    /\ main' = "done"
    /\ response' = "503"
    /\ UNCHANGED <<fixed, now, i, results, caught, targetVars>>

(***************************************************************************)
(* One batch promise: the retry loop of one target                         *)
(***************************************************************************)
Settle(t, record, how, message) ==
    /\ pc' = [pc EXCEPT ![t] = "settled"]
    /\ thrown' = [thrown EXCEPT ![t] = message]
    /\ retryCount' = [retryCount EXCEPT ![t] = 0]
    /\ rec' = [rec EXCEPT ![t] = record]
    /\ outcome' = [outcome EXCEPT ![t] = how]
    /\ delay' = [delay EXCEPT ![t] = 0]
    /\ wakeAt' = [wakeAt EXCEPT ![t] = 0]
    /\ overtaken' = (overtaken \/ \E k \in Batch(i) : k < t /\ pc[k] # "settled")

\* ollama.chat resolves: break, parse, build the record, return it.
ChatSucceeds(t, content) ==
    /\ main = "wave"
    /\ pc[t] = "calling"
    /\ Settle(t, SuccessRecord(websites[t], content), "success", NoError)
    /\ UNCHANGED <<fixed, main, now, i, results, response, caught, calls>>

\* A plausible slip: the batch promise has no catch, so the error rejects
\* Promise.all and reaches the outer catch.
Fail_Rethrow(t, message, how) ==
    /\ pc' = [pc EXCEPT ![t] = "settled"]
    /\ retryCount' = [retryCount EXCEPT ![t] = 0]
    /\ delay' = [delay EXCEPT ![t] = 0]
    /\ wakeAt' = [wakeAt EXCEPT ![t] = 0]
    /\ outcome' = [outcome EXCEPT ![t] = how]
    /\ thrown' = [thrown EXCEPT ![t] = message]
    /\ UNCHANGED <<rec, overtaken>>
    /\ OuterCatch(message)

\* The catch of the batch promise: the error becomes the target's record and
\* the promise resolves with it.
Fail(t, message, how) ==
    /\ Settle(t, FailureRecord(websites[t], message), how, message)
    /\ UNCHANGED <<main, response, caught>>

\* ollama.chat rejects: count the failure, then give up or start the backoff.
ChatFails(t, error) ==
    /\ main = "wave"
    /\ pc[t] = "calling"
    /\ IF Exhausted(retryCount[t] + 1)
       THEN Fail(t, ExhaustedMessage(error), "exhausted")
       ELSE /\ retryCount' = [retryCount EXCEPT ![t] = @ + 1]
            /\ pc' = [pc EXCEPT ![t] = "sleeping"]
            /\ delay' = [delay EXCEPT ![t] = Backoff(retryCount[t] + 1)]
            /\ wakeAt' = [wakeAt EXCEPT ![t] = now + Backoff(retryCount[t] + 1)]
            /\ UNCHANGED <<rec, outcome, overtaken, thrown, main, response, caught>>
    /\ UNCHANGED <<fixed, now, i, results, calls>>

\* The backoff timer fires: back to the top of the while loop, where
\* checkTimeout comes before the next ollama.chat.  Leaving the loop without
\* a response makes response.message throw in the inner try and again in its
\* catch, which the catch of the promise turns into a record.
Wake(t) ==
    /\ main = "wave"
    /\ pc[t] = "sleeping"
    /\ now >= wakeAt[t]
    /\ IF ~MayAttempt(retryCount[t])
       THEN /\ Fail(t, TypeErrorMessage, "exhausted")
            /\ UNCHANGED calls
       ELSE IF BudgetExceeded(now)
       THEN /\ Fail(t, TimedOutMessage, "budget")
            /\ UNCHANGED calls
       ELSE /\ pc' = [pc EXCEPT ![t] = "calling"]
            /\ calls' = [calls EXCEPT ![t] = @ + 1]
            /\ delay' = [delay EXCEPT ![t] = 0]
            /\ wakeAt' = [wakeAt EXCEPT ![t] = 0]
            /\ UNCHANGED <<rec, outcome, overtaken, thrown, retryCount, main, response, caught>>
    /\ UNCHANGED <<fixed, now, i, results>>

(***************************************************************************)
(* The batch loop after Promise.all                                        *)
(***************************************************************************)
\* A plausible slip: Promise.race in place of Promise.all.
WaveSettled_Any == \E k \in Batch(i) : pc[k] = "settled"

WaveSettled == \A k \in Batch(i) : pc[k] = "settled"

\* A plausible slip: no checkTimeout after the last wave.
Collect_NoLastCheck ==
    /\ main = "wave"
    /\ WaveSettled
    /\ results' = results \o BatchResults(i)
    /\ thrown' = [k \in Idx |-> NoError]
    /\ IF BudgetExceeded(now) /\ i + batchSize < N
       THEN /\ OuterCatch(TimedOutMessage)
            /\ calls' = [k \in Idx |-> 0]
            /\ UNCHANGED <<i, pc>>
       ELSE /\ i' = i + batchSize
            /\ IF i + batchSize < N
               THEN StartWave(i + batchSize)
               ELSE /\ main' = "done"
                    /\ response' = "200"
                    /\ calls' = [k \in Idx |-> 0]
                    /\ UNCHANGED <<caught, pc>>
    /\ UNCHANGED <<fixed, now, retryCount, delay, wakeAt, rec, outcome, overtaken>>

\* Promise.all resolves: push the batch's records, checkTimeout, then either
\* the next iteration (up to its first awaits) or the success response.
Collect ==
    /\ main = "wave"
    /\ WaveSettled
    /\ results' = results \o BatchResults(i)
    /\ thrown' = [k \in Idx |-> NoError]
    /\ IF BudgetExceeded(now)
       THEN /\ OuterCatch(TimedOutMessage)
            /\ calls' = [k \in Idx |-> 0]
            /\ UNCHANGED <<i, pc>>
       ELSE /\ i' = i + batchSize
            /\ IF i + batchSize < N
               THEN StartWave(i + batchSize)
               ELSE /\ main' = "done"
                    /\ response' = "200"
                    /\ calls' = [k \in Idx |-> 0]
                    /\ UNCHANGED <<caught, pc>>
    /\ UNCHANGED <<fixed, now, retryCount, delay, wakeAt, rec, outcome, overtaken>>

(***************************************************************************)
(* Time                                                                    *)
(***************************************************************************)
Running == main \in {"probing", "wave"}

Sleepers == {k \in Idx : pc[k] = "sleeping"}

Deadlines ==
    {wakeAt[k] : k \in Sleepers}
        \cup (IF main = "probing" THEN {healthCheckTimeout} ELSE {})

\* Time passes until the next timer is due.
TickToDeadline ==
    /\ Running
    /\ \E d \in Deadlines : d > now
    /\ now' = Min({d \in Deadlines : d > now})
    /\ UNCHANGED <<fixed, main, i, results, response, caught, targetVars>>

\* A long time passes while some call is pending and no timer is: a pending
\* timer fires when it is due, and the continuation of Promise.all runs as
\* soon as the last promise of the wave has settled.  The handler itself
\* puts no bound on how long ollama.chat stays pending (the timeout option is
\* handed to the client library), so one step stands for any long stretch of
\* slow calls.
TickBig ==
    /\ main = "wave"
    /\ \E k \in Idx : pc[k] = "calling"
    /\ Sleepers = {}
    /\ now <= MaxElapsed
    /\ now' = now + BigStep
    /\ UNCHANGED <<fixed, main, i, results, response, caught, targetVars>>

Next ==
    \/ Receive
    \/ ReceiveMalformed
    \/ ProbeSucceeds
    \/ ProbeFails
    \/ \E t \in Idx, content \in Contents : ChatSucceeds(t, content)
    \/ \E t \in Idx, error \in ChatErrors : ChatFails(t, error)
    \/ \E t \in Idx : Wake(t)
    \/ Collect
    \/ TickToDeadline
    \/ TickBig

Spec == Init /\ [][Next]_vars

(***************************************************************************)
(* The dispatcher with the total time budget switched off                  *)
(***************************************************************************)
\* enableTotalTimeout false, or maxTotalTime not above 0
DisabledConfigs ==
    {[enableTotalTimeout |-> FALSE, maxTotalTime |-> maxTotalTime],
     [enableTotalTimeout |-> TRUE, maxTotalTime |-> 0]}

InitNoBudget ==
    /\ websites \in Requests
    /\ config \in DisabledConfigs
    /\ Arrived
    /\ NoReply
    /\ Alone

SpecNoBudget == InitNoBudget /\ [][Next]_vars

(***************************************************************************)
(* One response handled on its own: the inner try of a batch promise       *)
(***************************************************************************)
dispatcherVars ==
    <<websites, config, main, now, i, results, response, caught, targetVars>>

InitParse ==
    /\ websites = <<Site(1)>>
    /\ config = OLLAMA_CONFIG
    /\ Arrived
    /\ reply \in Messages
    /\ step = "chat"
    /\ returned = Returned(Null, <<>>)
    /\ built = NoRecord
    /\ Alone

\* const parsed = parseRobustJSON(content, website)
Parse ==
    /\ step = "chat"
    /\ returned' = parseRobustJSON(reply)
    /\ step' = "parsed"
    /\ UNCHANGED <<dispatcherVars, reply, built, job, page, pair>>

\* if (parsed) ... else ... and the catch of the inner try
Build ==
    /\ step = "parsed"
    /\ built' = RecordOf(websites[1], resultFields(reply, returned))
    /\ step' = "built"
    /\ UNCHANGED <<dispatcherVars, reply, returned, job, page, pair>>

NextParse == Parse \/ Build

SpecParse == InitParse /\ [][NextParse]_vars

(***************************************************************************)
(* /api/audit (the bridge to the Python backend) and /api/audit/stream     *)
(***************************************************************************)
\* A plausible slip: the temp file written before the list is looked at.
BridgeReceive_WriteFirst ==
    /\ job.route = "bridge"
    /\ job.at = "received"
    /\ job' = IF job.body = "no JSON"
              THEN [job EXCEPT !.at = "answered", !.response = "500"]
              ELSE IF N = 0
              THEN [job EXCEPT !.at = "answered", !.response = "400", !.tempFile = TRUE]
              ELSE [job EXCEPT !.at = "awaiting", !.tempFile = TRUE,
                               !.python = "running", !.timer = TRUE,
                               !.promise = "pending"]
    /\ UNCHANGED <<dispatcherVars, parserVars, page, pair>>

\* POST of /api/audit up to its await: request.json() (a rejection goes to
\* the catch, 500), the 400 for no list, else writeFileSync of the temp file
\* and callPythonBackend up to its return: spawn and setTimeout.
BridgeReceive ==
    /\ job.route = "bridge"
    /\ job.at = "received"
    /\ job' = IF job.body = "no JSON"
              THEN [job EXCEPT !.at = "answered", !.response = "500"]
              ELSE IF N = 0
              THEN [job EXCEPT !.at = "answered", !.response = "400"]
              ELSE [job EXCEPT !.at = "awaiting", !.tempFile = TRUE,
                               !.python = "running", !.timer = TRUE,
                               !.promise = "pending"]
    /\ UNCHANGED <<dispatcherVars, parserVars, page, pair>>

\* A plausible slip: a promise that the last call settles.
SettleOnce_LastWins(promise, how) == how

\* A promise settles once: resolve and reject after that do nothing.
SettleOnce(promise, how) == IF promise = "pending" THEN how ELSE promise

\* pythonProcess.on('close'): clearTimeout, then resolve with the results
\* read from stdout or from the output file, or reject (exit code not 0, or
\* no results that parse).  A killed process closes with code null, or
\* with code 0 when it had ended before the signal was sent.
PythonClose(code, readable) ==
    /\ job.route = "bridge"
    /\ job.python \in {"running", "killed", "failed"}
    /\ code = 0 => job.python \in {"running", "killed"}
    /\ job' = [job EXCEPT !.python = "closed", !.timer = FALSE,
                          !.promise = SettleOnce(@, IF code = 0 /\ readable
                                                    THEN "resolved" ELSE "rejected")]
    /\ UNCHANGED <<dispatcherVars, parserVars, page, pair>>

\* pythonProcess.on('error'): the process could not be spawned.
PythonError ==
    /\ job.route = "bridge"
    /\ job.python = "running"
    /\ job' = [job EXCEPT !.python = "failed", !.timer = FALSE,
                          !.promise = SettleOnce(@, "rejected")]
    /\ UNCHANGED <<dispatcherVars, parserVars, page, pair>>

\* The 10-minute timer fires: SIGTERM and reject.
PythonTimeout ==
    /\ job.route = "bridge"
    /\ job.timer
    /\ job' = [job EXCEPT !.python = IF @ = "running" THEN "killed" ELSE @,
                          !.timer = FALSE, !.signal = "SIGTERM",
                          !.promise = SettleOnce(@, "rejected")]
    /\ UNCHANGED <<dispatcherVars, parserVars, page, pair>>

\* POST of /api/audit after its await: with results unlinkSync of the temp
\* file and the 200; a rejection goes to the catch, which answers 500.
BridgeAnswer ==
    /\ job.route = "bridge"
    /\ job.at = "awaiting"
    /\ job.promise \in {"resolved", "rejected"}
    /\ job' = IF job.promise = "resolved"
              THEN [job EXCEPT !.at = "answered", !.tempFile = FALSE, !.response = "200"]
              ELSE [job EXCEPT !.at = "answered", !.response = "500"]
    /\ UNCHANGED <<dispatcherVars, parserVars, page, pair>>

\* POST of /api/audit/stream, with the start callback of its stream up to
\* its return: request.json() outside any try, the 400 for no list, else
\* writeFileSync of the temp file, the 'start' event, spawn, setTimeout and
\* the event-stream response.
StreamReceive ==
    /\ job.route = "stream"
    /\ job.at = "received"
    /\ job' = IF job.body = "no JSON"
              THEN [job EXCEPT !.at = "answered", !.response = "threw"]
              ELSE IF N = 0
              THEN [job EXCEPT !.at = "answered", !.response = "400"]
              ELSE [job EXCEPT !.at = "answered", !.tempFile = TRUE,
                               !.python = "running", !.timer = TRUE,
                               !.events = <<Event("start", <<>>)>>,
                               !.response = "stream"]
    /\ UNCHANGED <<dispatcherVars, parserVars, page, pair>>

\* controller.enqueue from a callback: on a closed stream it throws.
enqueue(j, callback, event) ==
    IF j.closed THEN [j EXCEPT !.late = @ \cup {callback}]
    ELSE [j EXCEPT !.events = Append(@, event)]

\* controller.close() from a callback: on a closed stream it throws.
close(j, callback) ==
    IF j.closed THEN [j EXCEPT !.late = @ \cup {callback}]
    ELSE [j EXCEPT !.closed = TRUE]

\* pythonProcess.stdout.on('data') for a chunk with an 'Auditing:' line.
\* What was written before the process ended may arrive after the kill.
StreamProgress ==
    /\ job.route = "stream"
    /\ job.python \in {"running", "killed"}
    /\ ~job.summary
    /\ job.currentIndex < N
    /\ job' = enqueue([job EXCEPT !.currentIndex = @ + 1], "stdout",
                      Event("progress", <<>>))
    /\ UNCHANGED <<dispatcherVars, parserVars, page, pair>>

\* pythonProcess.stdout.on('data') for the chunk with the summary: when the
\* output file is there and parses, it is unlinked and a 'complete' event
\* with its results is enqueued; a throw in this is caught and logged.
StreamSummary(readable) ==
    /\ job.route = "stream"
    /\ job.python \in {"running", "killed"}
    /\ ~job.summary
    /\ job' = IF readable
              THEN enqueue([job EXCEPT !.summary = TRUE], "summary",
                           Event("complete", fileResults))
              ELSE [job EXCEPT !.summary = TRUE]
    /\ UNCHANGED <<dispatcherVars, parserVars, page, pair>>

\* pythonProcess.on('close'): clearTimeout, a 'complete' event with the
\* local results (which nothing ever fills) or an 'error' event, unlinkSync
\* of the temp file, controller.close().  The throw of enqueue on a closed
\* stream ends the callback there.  A killed process closes with code null,
\* or with code 0 when it had ended before the signal was sent.
StreamClose(code) ==
    /\ job.route = "stream"
    /\ job.python \in {"running", "killed", "failed"}
    /\ code = 0 => job.python \in {"running", "killed"}
    /\ LET cleared == [job EXCEPT !.python = "closed", !.timer = FALSE]
           sent == enqueue(cleared, "close",
                           IF code = 0 THEN Event("complete", <<>>)
                           ELSE Event("error", <<>>))
       IN job' = IF job.closed THEN sent
                 ELSE close([sent EXCEPT !.tempFile = FALSE], "close")
    /\ UNCHANGED <<dispatcherVars, parserVars, page, pair>>

\* pythonProcess.on('error'): the process could not be spawned or could not
\* be killed: clearTimeout, an 'error' event, controller.close().
StreamError ==
    /\ job.route = "stream"
    /\ job.python \in {"running", "killed"}
    /\ LET cleared == [job EXCEPT !.python = "failed", !.timer = FALSE]
           sent == enqueue(cleared, "error", Event("error", <<>>))
       IN job' = IF job.closed THEN sent ELSE close(sent, "error")
    /\ UNCHANGED <<dispatcherVars, parserVars, page, pair>>

\* The 10-minute timer of the stream fires: SIGTERM, an 'error' event,
\* controller.close().
StreamTimeout ==
    /\ job.route = "stream"
    /\ job.timer
    /\ LET killed == [job EXCEPT !.python = IF @ = "running" THEN "killed" ELSE @,
                                 !.timer = FALSE, !.signal = "SIGTERM"]
           sent == enqueue(killed, "timeout", Event("error", <<>>))
       IN job' = IF job.closed THEN sent ELSE close(sent, "timeout")
    /\ UNCHANGED <<dispatcherVars, parserVars, page, pair>>

\* A request to one of the three routes; only a body with the list has
\* websites in it.
InitRoutes ==
    /\ websites \in Requests
    /\ config = OLLAMA_CONFIG
    /\ Arrived
    /\ NoReply
    /\ page = ClosedPage
    /\ pair = NoPair
    /\ \E route \in Routes, body \in Bodies :
          /\ body # "list" => websites = <<>>
          /\ job = Job(route, body)

NextRoutes ==
    \/ Next
    \/ BridgeReceive
    \/ \E code \in {0, 1}, readable \in BOOLEAN : PythonClose(code, readable)
    \/ PythonError
    \/ PythonTimeout
    \/ BridgeAnswer
    \/ StreamReceive
    \/ StreamProgress
    \/ \E readable \in BOOLEAN : StreamSummary(readable)
    \/ \E code \in {0, 1} : StreamClose(code)
    \/ StreamError
    \/ StreamTimeout

SpecRoutes == InitRoutes /\ [][NextRoutes]_vars

(***************************************************************************)
(* Two requests to /api/audit (api/audit/route.ts)                         *)
(***************************************************************************)
\* POST of request r up to its await: writeFileSync of temp_websites.txt
\* with its URLs, spawn.
PairReceive(r) ==
    /\ pair.request[r].at = "received"
    /\ pair' = [pair EXCEPT !.tempFile = r,
                            !.request[r].at = "awaiting",
                            !.request[r].python = "running",
                            !.request[r].promise = "pending"]
    /\ UNCHANGED <<dispatcherVars, parserVars, job, page>>

\* The process of request r (cli.py --file temp_websites.txt --output
\* temp_results) reads the file it was given and writes its results to a
\* new temp_results_ file of audit_data; without the file it fails.
PairRun(r) ==
    /\ pair.request[r].python = "running"
    /\ pair' = IF pair.tempFile = 0
               THEN [pair EXCEPT !.request[r].python = "failed"]
               ELSE [pair EXCEPT !.request[r].python = "done",
                                 !.request[r].urls = pair.tempFile,
                                 !.outputs = Append(@, pair.tempFile)]
    /\ UNCHANGED <<dispatcherVars, parserVars, job, page>>

\* pythonProcess.on('close') of request r: with code 0 the results are
\* parsed from stdout, or else read from the most recent temp_results_
\* file, which is unlinked; with no such file, or another code, reject.
PairClose(r, stdoutParses) ==
    /\ pair.request[r].python \in {"done", "failed"}
    /\ LET closed == [pair EXCEPT !.request[r].python = "closed"]
       IN pair' =
            IF pair.request[r].python = "failed"
            THEN [closed EXCEPT !.request[r].promise = "rejected"]
            ELSE IF stdoutParses
            THEN [closed EXCEPT !.request[r].promise = "resolved",
                                !.request[r].results = pair.request[r].urls]
            ELSE IF pair.outputs # <<>>
            THEN [closed EXCEPT !.request[r].promise = "resolved",
                                !.request[r].results = pair.outputs[Len(pair.outputs)],
                                !.outputs = SubSeq(@, 1, Len(@) - 1)]
            ELSE [closed EXCEPT !.request[r].promise = "rejected"]
    /\ UNCHANGED <<dispatcherVars, parserVars, job, page>>

\* POST of request r after its await: with results unlinkSync of
\* temp_websites.txt, which throws when the file is gone, and the 200; a
\* throw or a rejection goes to the catch, which answers 500.
PairAnswer(r) ==
    /\ pair.request[r].at = "awaiting"
    /\ pair.request[r].promise \in {"resolved", "rejected"}
    /\ pair' = IF pair.request[r].promise = "resolved" /\ pair.tempFile # 0
               THEN [pair EXCEPT !.tempFile = 0,
                                 !.request[r].at = "answered",
                                 !.request[r].response = "200"]
               ELSE [pair EXCEPT !.request[r].at = "answered",
                                 !.request[r].response = "500"]
    /\ UNCHANGED <<dispatcherVars, parserVars, job, page>>

\* Two requests with websites have arrived at /api/audit.
InitPair ==
    /\ websites = <<>>
    /\ config = OLLAMA_CONFIG
    /\ Arrived
    /\ NoReply
    /\ job = Job("bridge", "list")
    /\ page = ClosedPage
    /\ pair = Pair("received")

NextPair ==
    \E r \in 1..2 :
        \/ PairReceive(r)
        \/ PairRun(r)
        \/ \E stdoutParses \in BOOLEAN : PairClose(r, stdoutParses)
        \/ PairAnswer(r)

SpecPair == InitPair /\ [][NextPair]_vars

(***************************************************************************)
(* The audit page (audit/page.tsx)                                         *)
(***************************************************************************)
\* An entry of the report built from a record of the API response.
ApiEntry(result) ==
    [url |-> result.website, name |-> result.name, category |-> result.category,
     status |-> "completed", ageVerification |-> result.has_age_verification,
     method |-> result.verification_type]

\* An entry of the demo report: by the category of the site, with
\* Math.random() deciding for the categories of the default branch.
DemoEntry(site, random) ==
    LET ageVerification == IF site.category = "Adult Content" THEN TRUE ELSE random
    IN [url |-> site.url, name |-> site.name, category |-> site.category,
        status |-> "completed", ageVerification |-> JSBoolean(ageVerification),
        method |-> IF ageVerification THEN Str("Age Gate") ELSE Str("None")]

\* A plausible slip: the demo report made from the list on the page in
\* place of the list startAudit was called with.
Fallback_CurrentList(random) ==
    [page EXCEPT !.isUsingRealAPI = FALSE,
                 !.auditReport =
                     Report(TRUE, Len(page.websites), Len(page.websites),
                            [k \in DOMAIN page.websites |->
                                DemoEntry(page.websites[k], random[k])]),
                 !.reportFrom = "demo",
                 !.isAuditing = FALSE, !.inFlight = @ - 1, !.timer = FALSE]

\* The catch of startAudit with its finally: the real-API flag off, the
\* alert, and the demo report for the websites of the call.
Fallback(random) ==
    [page EXCEPT !.isUsingRealAPI = FALSE,
                 !.auditReport =
                     Report(TRUE, Len(page.submitted), Len(page.submitted),
                            [k \in DOMAIN page.submitted |->
                                DemoEntry(page.submitted[k], random[k])]),
                 !.reportFrom = "demo",
                 !.isAuditing = FALSE, !.inFlight = @ - 1, !.timer = FALSE]

\* onDrop: the sites read from the files are appended to the list.
onDrop(list) ==
    /\ page.open
    /\ Len(list) > Len(page.websites)
    /\ page' = [page EXCEPT !.websites = list]
    /\ UNCHANGED <<dispatcherVars, parserVars, job, pair>>

\* loadDemoData: the list is replaced by the demo list.
loadDemoData ==
    /\ page.open
    /\ page' = [page EXCEPT !.websites = [k \in 1..MaxTargets |-> Site(k)],
                            !.isDemoMode = TRUE]
    /\ UNCHANGED <<dispatcherVars, parserVars, job, pair>>

\* clearAll
clearAll ==
    /\ page.open
    /\ page' = [page EXCEPT !.websites = <<>>,
                            !.auditReport = Report(FALSE, 0, 0, <<>>),
                            !.reportFrom = "none",
                            !.isDemoMode = FALSE]
    /\ UNCHANGED <<dispatcherVars, parserVars, job, pair>>

\* A plausible slip: the button disabled only without websites.
startAudit_AlwaysEnabled ==
    /\ page.open
    /\ Len(page.websites) > 0
    /\ page.inFlight < 2
    /\ page' = [page EXCEPT !.isAuditing = TRUE, !.isUsingRealAPI = TRUE,
                            !.submitted = page.websites, !.inFlight = @ + 1,
                            !.timer = TRUE]
    /\ UNCHANGED <<dispatcherVars, parserVars, job, pair>>

\* startAudit up to its await: the button is disabled without websites and
\* while an audit is running.
startAudit ==
    /\ page.open
    /\ Len(page.websites) > 0
    /\ ~page.isAuditing
    /\ page' = [page EXCEPT !.isAuditing = TRUE, !.isUsingRealAPI = TRUE,
                            !.submitted = page.websites, !.inFlight = @ + 1,
                            !.timer = TRUE]
    /\ UNCHANGED <<dispatcherVars, parserVars, job, pair>>

\* startAudit after its await.  The fetch ends with a response that is ok
\* and whose body has the results ("ok"), with a status that is not ok
\* ("status"), with a body that has no results ("body"), with a rejection
\* ("network"), or aborted by the 10-minute timer ("abort").  The timer of
\* a fetch that rejected stays pending, but it aborts a fetch that is over:
\* it is dropped here.
FetchEnds(how, content, random) ==
    /\ page.open
    /\ page.inFlight > 0
    /\ page' = IF how = "ok"
               THEN [page EXCEPT
                        !.auditReport =
                            Report(TRUE, Len(page.submitted), Len(page.submitted),
                                   [k \in DOMAIN page.submitted |->
                                       ApiEntry(SuccessRecord(page.submitted[k], content))]),
                        !.reportFrom = "api",
                        !.isAuditing = FALSE, !.inFlight = @ - 1, !.timer = FALSE]
               ELSE Fallback(random)
    /\ UNCHANGED <<dispatcherVars, parserVars, job, pair>>

InitPage ==
    /\ websites = <<>>
    /\ config = OLLAMA_CONFIG
    /\ Arrived
    /\ NoReply
    /\ job = Job("fast", "list")
    /\ page = AuditPage(TRUE)
    /\ pair = NoPair

NextPage ==
    \/ \E list \in Requests : onDrop(list)
    \/ loadDemoData
    \/ clearAll
    \/ startAudit
    \/ \E how \in {"ok", "status", "body", "network", "abort"},
          content \in Contents, random \in [1..MaxTargets -> BOOLEAN] :
            FetchEnds(how, content, random)

SpecPage == InitPage /\ [][NextPage]_vars

\* A fetch ends: at the latest the 10-minute timer aborts it.
FetchSettles ==
    \E how \in {"ok", "status", "body", "network", "abort"},
       content \in Contents, random \in [1..MaxTargets -> BOOLEAN] :
         FetchEnds(how, content, random)

SpecPageFair == SpecPage /\ WF_vars(FetchSettles)

(***************************************************************************)
(* Properties of the dispatcher                                            *)
(***************************************************************************)
\* The first wave has been dispatched.
ProbePassed == N > 0 /\ pc[1] # "idle"
Finished == main = "done"
Failure(record) == record.verification_type \in {Str("timeout"), Str("error")}
Matches(record, website) ==
    /\ record.website = website.url
    /\ record.name = website.name
    /\ record.category = website.category
TimeoutRecord(record) ==
    /\ record.verification_type = Str("timeout")
    /\ record.confidence_score = JSNumber(0)
    /\ record.has_age_verification = JSBoolean(FALSE)

\* C1 as stated: every run whose liveness probe succeeded ends by returning
\* exactly websites.length records.
C1_AlwaysAllRecords ==
    (Finished /\ ProbePassed) => (response = "200" /\ Len(results) = N)

\* C1 amended: a run whose probe succeeded and in which no budget check at a
\* wave boundary fails ends by returning exactly websites.length records, the
\* k-th being the record of the k-th target; a run in which such a check
\* fails returns no records.
C1_AllRecordsUnlessBudget ==
    /\ (Finished /\ ProbePassed /\ caught = NoError) => response = "200"
    /\ response = "200" =>
          /\ Len(results) = N
          /\ \A k \in Idx : results[k] = rec[k] /\ results[k].website = websites[k].url
    /\ caught # NoError => response # "200"

C1_Witness ==
    /\ response = "200"
    /\ N = MaxTargets
    /\ \E k \in Idx : results[k].verification_type = Str("error")
    /\ \E k \in Idx : results[k].verification_type = Str("timeout")
    /\ \E k \in Idx : results[k].verification_type = Str("popup")

\* C2 as stated: when the budget is found exceeded at a wave boundary the
\* run still returns a result set, in which every target not yet dispatched
\* has a timeout record and the records already produced are kept.
C2_TimeoutRecordsSynthesized ==
    includes(caught, TimedOut) =>
        /\ response = "200"
        /\ Len(results) = N
        /\ \A k \in Idx : pc[k] = "idle" => TimeoutRecord(results[k])
        /\ \A k \in Idx : pc[k] = "settled" => results[k] = rec[k]

\* C2 amended: when the budget is found exceeded at the check before or after
\* a wave, the run stops launching waves and ends on its error path without
\* a result set: no target is left in flight, the targets not yet dispatched
\* get neither a call nor a record, and this happens only with the elapsed
\* time above maxTotalTime.
C2_BudgetAbortsRun ==
    includes(caught, TimedOut) =>
        /\ Finished
        /\ response = "threw"
        /\ now > maxTotalTime
        /\ \A k \in Idx : pc[k] \in {"idle", "settled"}
        /\ \A k \in Idx : pc[k] = "idle" => (calls[k] = 0 /\ rec[k] = NoRecord)
        /\ \A k \in Idx : pc[k] = "idle" <=> k > Len(results)

C2_Witness ==
    /\ includes(caught, TimedOut)
    /\ Len(results) = batchSize
    /\ N > batchSize
    /\ pc[N] = "idle"

\* C3: in every result set the record at position k has the url, name and
\* category of the k-th target, whatever the order of completion in a wave.
C3_InputOrder ==
    \A k \in 1..Len(results) : k <= N /\ Matches(results[k], websites[k])

C3_Witness ==
    /\ response = "200"
    /\ overtaken
    /\ N > batchSize

\* C4: no chat call is issued before the liveness probe has succeeded, and a
\* failed probe ends the run with the single response 503, no chat call and
\* no record.
C4_ProbeFirst ==
    (main \in {"received", "probing"} \/ response = "503") =>
        /\ \A k \in Idx : calls[k] = 0 /\ pc[k] = "idle" /\ rec[k] = NoRecord
        /\ results = <<>>
        /\ response = "503" => (Finished /\ N > 0)

C4_Witness ==
    /\ response = "503"
    /\ now = healthCheckTimeout
    /\ N > 1

\* C5 as stated: once the liveness probe has succeeded the run never ends
\* with a run-level error.
C5_NeverAborted == ProbePassed => (caught = NoError /\ response # "threw")

\* C5 amended: once the liveness probe has succeeded, the run is aborted only
\* by the global budget found exceeded at a wave boundary (elapsed time above
\* maxTotalTime, no target in flight); exhausted retries and unparsable
\* responses never abort it.
C5_OnlyBudgetAborts ==
    (ProbePassed /\ (response = "threw" \/ caught # NoError)) =>
        /\ caught = TimedOutMessage
        /\ now > maxTotalTime
        /\ \A k \in Idx : pc[k] \in {"idle", "settled"}

C5_Witness ==
    /\ response = "threw"
    /\ \E k \in Idx : pc[k] = "settled" /\ rec[k].verification_type = Str("error")
    /\ \E k \in Idx : pc[k] = "settled" /\ rec[k].details = JSString(PlainContent.content)

Uncollected(k) == pc[k] # "idle" /\ k > Len(results)

C7_CallsBounded ==
    \A k \in Idx :
        /\ calls[k] <= maxRetries + 1
        /\ Uncollected(k) => calls[k] >= 1
        /\ ~Uncollected(k) => calls[k] = 0
        /\ pc[k] = "calling" => calls[k] = retryCount[k] + 1
        /\ pc[k] \in {"calling", "sleeping"} => retryCount[k] <= maxRetries

C7_NoCallAfterSuccess ==
    [][\A k \in Idx :
          /\ outcome[k] = "success" =>
                (outcome'[k] = "success" /\ pc'[k] = "settled" /\ calls'[k] <= calls[k])
          /\ calls'[k] > calls[k] =>
                (calls'[k] = calls[k] + 1 /\ pc'[k] = "calling" /\ outcome[k] = "none")]_vars

C7_Attempts == []C7_CallsBounded /\ C7_NoCallAfterSuccess

C7_Witness ==
    /\ main = "wave"
    /\ WaveSettled
    /\ \E k \in Idx : calls[k] = maxRetries + 1 /\ outcome[k] = "success"
    /\ \E k \in Idx : calls[k] = 1 /\ outcome[k] = "success"

\* C8: after the k-th failed attempt (1 <= k <= maxRetries) the timer is set
\* to 1000 * k and the next attempt is not issued before it is due; after
\* the last allowed attempt fails there is no wait.
C8_DelayLinear ==
    \A k \in Idx :
        /\ pc[k] = "sleeping" =>
              /\ retryCount[k] >= 1
              /\ retryCount[k] <= maxRetries
              /\ calls[k] = retryCount[k]
              /\ delay[k] = 1000 * retryCount[k]
              /\ wakeAt[k] - delay[k] <= now
              /\ wakeAt[k] - delay[k] >= 0
        /\ pc[k] # "sleeping" => (delay[k] = 0 /\ wakeAt[k] = 0)

C8_WaitsBeforeRetry ==
    [][\A k \in Idx :
          /\ (pc[k] = "sleeping" /\ pc'[k] # "sleeping") => now >= wakeAt[k]
          /\ (pc[k] = "calling" /\ pc'[k] = "sleeping") =>
                (wakeAt'[k] = now + 1000 * (calls[k]) /\ calls[k] <= maxRetries)
          /\ (pc[k] = "calling" /\ calls[k] = maxRetries + 1) => pc'[k] # "sleeping"]_vars

C9_WavesSequential ==
    /\ Cardinality({k \in Idx : pc[k] \in {"calling", "sleeping"}}) <= batchSize
    /\ \A k \in Idx :
          /\ pc[k] \in {"calling", "sleeping"} => (main = "wave" /\ k \in Batch(i))
          /\ k <= Len(results) => (pc[k] = "settled" /\ results[k] = rec[k])
          /\ (main = "wave" /\ k <= i) => k <= Len(results)
          /\ k > i + batchSize => pc[k] = "idle"
    /\ Len(results) <= N
    /\ Len(results) % batchSize = 0 \/ Len(results) = N
    /\ main = "wave" => (Len(results) = i /\ \A k \in Batch(i) : pc[k] # "idle")

C9_Witness ==
    /\ main = "wave"
    /\ i = batchSize
    /\ outcome[1] = "exhausted"
    /\ pc[N] = "sleeping"
    /\ Len(results) = batchSize

\* C10 as stated: the budget is consulted at wave boundaries only, so no
\* target of a started wave ends because of the global budget: each runs its
\* attempts to success or to the exhaustion of its retries.
C10_NoMidWaveTimeout ==
    \A k \in Idx :
        /\ outcome[k] # "budget"
        /\ (Uncollected(k) /\ pc[k] = "settled" /\ Failure(rec[k])) =>
              calls[k] = maxRetries + 1

\* C10 amended: the budget is consulted at wave boundaries and before every
\* retry of a target: a call in flight is never cut short, but a target whose
\* retry comes due with the elapsed time above maxTotalTime gets a timeout
\* record without a further call; a target fails with fewer than
\* maxRetries + 1 calls in this case only.
C10_RetryChecksBudget ==
    \A k \in Idx :
        /\ outcome[k] = "budget" =>
              /\ TimeoutRecord(rec[k])
              /\ now > maxTotalTime
              /\ Uncollected(k) => (calls[k] >= 1 /\ calls[k] <= maxRetries)
        /\ (Uncollected(k) /\ pc[k] = "settled" /\ Failure(rec[k])
                /\ calls[k] < maxRetries + 1) =>
              outcome[k] = "budget"

C10_Witness ==
    /\ main = "wave"
    /\ \E k \in Idx :
          /\ outcome[k] = "budget"
          /\ TimeoutRecord(rec[k])
          /\ calls[k] = 1
    /\ \E k \in Idx : pc[k] = "calling"

(***************************************************************************)
(* The budget switched off (SpecNoBudget)                                  *)
(***************************************************************************)
\* C11: with the total time budget disabled (enableTotalTimeout false, or
\* maxTotalTime not above 0) the elapsed time has no effect on the run: no
\* budget check fails whatever the elapsed time, no target gets a record
\* because of the budget, no run ends on the budget's error, and every run
\* whose probe succeeded goes through every wave and answers 200 with all
\* the records.
C11_ElapsedTimeIgnored ==
    /\ ~config.enableTotalTimeout \/ config.maxTotalTime <= 0
    /\ ~BudgetExceeded(now)
    /\ ~includes(caught, TimedOut)
    /\ \A k \in Idx : outcome[k] # "budget" /\ thrown[k] # TimedOutMessage
    /\ (Finished /\ ProbePassed) =>
          /\ response = "200"
          /\ Len(results) = N
          /\ \A k \in Idx : pc[k] = "settled"
    /\ main = "wave" => Len(results) = i

C11_Witness ==
    /\ ~config.enableTotalTimeout
    /\ response = "200"
    /\ now > maxTotalTime
    /\ N > batchSize
    /\ \E k \in Idx : outcome[k] = "exhausted"

(***************************************************************************)
(* The catch of a batch promise                                            *)
(***************************************************************************)
\* The target k has used up its retries and its wave is not collected yet.
GaveUp(k) == Uncollected(k) /\ pc[k] = "settled" /\ outcome[k] = "exhausted"

\* C12 as stated: when a target's retries are exhausted, an error carrying
\* a timeout, connection-refused or DNS-failure marker gives the type
\* "timeout", any other error the type "error" with the message in details;
\* has_age_verification is false and confidence_score 0 in both cases.
C12_RefusedIsTimeout ==
    \A k \in Idx : GaveUp(k) =>
        LET marked == \E marker \in {<<"timeout">>, TimedOut, <<"ETIMEDOUT">>,
                                      <<"ECONNREFUSED">>, <<"ENOTFOUND">>} :
                          includes(thrown[k], marker)
        IN /\ rec[k].verification_type = (IF marked THEN Str("timeout") ELSE Str("error"))
           /\ ~marked => rec[k].details = JSString(<<"Error", ":", SP>> \o thrown[k])
           /\ rec[k].has_age_verification = JSBoolean(FALSE)
           /\ rec[k].confidence_score = JSNumber(0)

\* C12 amended: when a target's retries are exhausted, the error caught is
\* the wrapper of the last error, whose message it embeds; a message with
\* "timeout", "timed out", ETIMEDOUT or ENOTFOUND in it gives the type
\* "timeout" and a fixed text in details, any other message (a refused
\* connection, ECONNREFUSED, among them) the type "error" and "Error: "
\* followed by the message in details; has_age_verification is false and
\* confidence_score 0 in both cases.
C12_ClassifiedByMessage ==
    \A k \in Idx : GaveUp(k) =>
        LET marked == \E marker \in {<<"timeout">>, TimedOut, <<"ETIMEDOUT">>,
                                      <<"ENOTFOUND">>} :
                          includes(thrown[k], marker)
        IN /\ \E error \in ChatErrors : thrown[k] = ExhaustedMessage(error)
           /\ rec[k].verification_type = (IF marked THEN Str("timeout") ELSE Str("error"))
           /\ marked => rec[k].details.text # <<>> /\ ~includes(rec[k].details.text, <<"Error">>)
           /\ ~marked => rec[k].details = JSString(<<"Error", ":", SP>> \o thrown[k])
           /\ includes(thrown[k], <<"ECONNREFUSED">>) => ~marked
           /\ rec[k].has_age_verification = JSBoolean(FALSE)
           /\ rec[k].confidence_score = JSNumber(0)

C12_Witness ==
    /\ \E k \in Idx : GaveUp(k) /\ includes(thrown[k], <<"ECONNREFUSED">>)
    /\ \E k \in Idx : GaveUp(k) /\ includes(thrown[k], <<"ENOTFOUND">>)
    /\ \E k \in Idx : GaveUp(k) /\ includes(thrown[k], <<"ETIMEDOUT">>)

(***************************************************************************)
(* Properties of parseRobustJSON and of the record built from its result   *)
(* (SpecParse)                                                             *)
(***************************************************************************)
\* The text has an opening brace with a closing brace after it.
HasBraces(text) ==
    \E p \in DOMAIN text : \E q \in DOMAIN text :
        p < q /\ text[p] = "{" /\ text[q] = "}"

\* C13 as stated: parseRobustJSON never raises, and for every non-empty raw
\* text it returns a non-null result.
C13_AlwaysAResult ==
    (step # "chat" /\ reply.isString /\ reply.content # <<>>) =>
        ~returned.raised /\ returned.ok

\* C13 amended: parseRobustJSON never raises, whatever it is given.  It
\* returns null, without trying any strategy, for a content that is no
\* string and for a text without an opening brace followed by a closing
\* one; for every other text it returns a non-null object: a failure of a
\* strategy only advances to the next one, and the fourth always yields an
\* object with the four fields.
C13_NullWithoutBraces ==
    step # "chat" =>
        /\ ~returned.raised
        /\ returned.ok <=> (reply.isString /\ HasBraces(reply.content))
        /\ ~returned.ok => returned.attempts = <<>>
        /\ returned.ok =>
              /\ Len(returned.attempts) \in 1..4
              /\ Len(returned.attempts) = 4 =>
                    \A f \in Fields : returned.object[f] # JSUndefined

C13_Witness ==
    /\ step = "parsed"
    /\ returned.ok
    /\ returned.attempts = <<1, 2, 3, 4>>
    /\ ~reply.jsonrepair.ok

\* C14: the strategies are tried in the order 1 (strict parse), 2 (repair),
\* 3 (manual fixes), 4 (key-value patterns), 5 (raw content): the attempts
\* made are 1..n for some n, the attempts before the n-th all failed, and
\* what is returned is the object of the n-th, which succeeded.
C14_FirstSuccess ==
    step # "chat" =>
        LET n == Len(returned.attempts)
        IN /\ n \in 0..5
           /\ returned.attempts = [k \in 1..n |-> k]
           /\ \A k \in 1..(n - 1) : ~attempts(reply)[k].ok
           /\ n > 0 =>
                 /\ attempts(reply)[n].ok
                 /\ returned.ok
                 /\ returned.object = attempts(reply)[n].object
           /\ n = 0 => ~returned.ok

C14_Witness ==
    /\ step = "parsed"
    /\ returned.attempts = <<1, 2, 3>>
    /\ returned.ok
    /\ returned.object["has_age_verification"] # JSUndefined

\* C15 as stated, for the records whose confidence_score is a number: it
\* lies in [0, 1] (0..100 hundredths), and a response with
\* "confidence_score": 95 read by the strict parse gives 0.95.
C15_ConfidenceInRange ==
    step = "built" =>
        /\ built.confidence_score.type = "number" =>
              built.confidence_score.num \in 0..100
        /\ (returned.attempts = <<1>>
               /\ includes(reply.content, <<DQ, "confidence_score", DQ, ":", SP, "95">>)) =>
              built.confidence_score = JSNumber(95)

\* The member written with a bare key in the text.
BareMember(text, name, value) ==
    \E p \in DOMAIN text :
        /\ text[p] = name
        /\ p > 1 /\ text[p - 1] \notin {DQ, SQ}
        /\ p + 2 + Len(value) <= Len(text)
        /\ \A j \in 1..Len(value) : text[p + 2 + j] = value[j]
        /\ text[p + 1] = ":" /\ text[p + 2] = SP
        /\ text[p + 3 + Len(value)] \in {",", "}"}

\* C16 as stated, for the responses with bare keys that the strict parse or
\* the manual fixes read: has_age_verification is the boolean written and
\* confidence_score is a number.
C16_TypedFields ==
    (/\ step = "built"
     /\ returned.attempts \in {<<1>>, <<1, 2, 3>>}
     /\ \E c \in {<<"0.8">>, <<"95">>} : BareMember(reply.content, "confidence_score", c)
     /\ BareMember(reply.content, "verification_type", <<"popup">>)
     /\ includes(reply.content, <<"details", ":">>)) =>
        \A b \in BOOLEAN :
            BareMember(reply.content, "has_age_verification",
                       IF b THEN <<"true">> ELSE <<"false">>) =>
                /\ built.has_age_verification = JSBoolean(b)
                /\ built.confidence_score.type = "number"

\* C17 as stated: the text without braces
\*   headers: confidence_score: 0.95, has_age_verification: true
\* is resolved by the fourth strategy to has_age_verification true and
\* confidence_score 0.95.
C17_ByFieldPatterns ==
    LET text == <<"headers", ":", SP, "confidence_score", ":", SP, "0.95", ",", SP,
                  "has_age_verification", ":", SP, "true">>
    IN (step = "built" /\ reply.isString /\ reply.content = text) =>
           /\ returned.attempts = <<1, 2, 3, 4>>
           /\ built.has_age_verification = JSBoolean(TRUE)
           /\ built.confidence_score = JSNumber(95)

\* C17 amended: a text without braces, such as
\*   headers: confidence_score: 0.95, has_age_verification: true
\* is given to no strategy: parseRobustJSON returns null and the record is
\* made by the search of the text for "age verification", "birth date",
\* "age gate" and "verification".  For the text above, which contains
\* "verification", has_age_verification is true, verification_type
\* "detected", confidence_score 0.7 and details the text itself; a text
\* with none of the phrases gives false, "none" and 0.5.
C17_BraceLessSearched ==
    LET text == <<"headers", ":", SP, "confidence_score", ":", SP, "0.95", ",", SP,
                  "has_age_verification", ":", SP, "true">>
    IN (step = "built" /\ reply.isString /\ ~HasBraces(reply.content)) =>
           /\ returned.attempts = <<>>
           /\ ~returned.ok
           /\ built.details = JSString(reply.content)
           /\ built.has_age_verification.type = "boolean"
           /\ \/ /\ built.has_age_verification = JSBoolean(TRUE)
                 /\ built.verification_type = Str("detected")
                 /\ built.confidence_score = JSNumber(70)
              \/ /\ built.has_age_verification = JSBoolean(FALSE)
                 /\ built.verification_type = Str("none")
                 /\ built.confidence_score = JSNumber(50)
           /\ reply.content = text => built.has_age_verification = JSBoolean(TRUE)

C17_Witness ==
    /\ step = "built"
    /\ reply.isString
    /\ ~HasBraces(reply.content)
    /\ includes(reply.content, <<"confidence_score", ":", SP, "0.95">>)
    /\ includes(reply.content, <<"has_age_verification", ":", SP, "true">>)
    /\ built.confidence_score = JSNumber(70)

\* C18: a response with no JSON structure (no field name in it, and either
\* no braces or braces that none of the strict parse, the repair and the
\* manual fixes reads) that contains "age verification" in any letter case
\* gives a record with has_age_verification true.
C18_PhraseDetected ==
    (/\ step = "built"
     /\ reply.isString
     /\ \E p \in DOMAIN reply.content : \E a \in {"age", "Age", "AGE"} :
            \E v \in {"verification", "Verification", "VERIFICATION"} :
                /\ p + 2 <= Len(reply.content)
                /\ reply.content[p] = a
                /\ reply.content[p + 1] = SP
                /\ reply.content[p + 2] = v
     /\ \A k \in DOMAIN reply.content :
            reply.content[k] \notin Fields \cup {"confidence", "HAS_AGE_VERIFICATION"}
     /\ ~HasBraces(reply.content) \/ Len(returned.attempts) >= 4) =>
        built.has_age_verification = JSBoolean(TRUE)

C18_Witness ==
    /\ step = "built"
    /\ reply.isString
    /\ ~HasBraces(reply.content)
    /\ includes(reply.content, <<"Age", SP, "Verification">>)
    /\ built.has_age_verification = JSBoolean(TRUE)

\* C19 as stated: the details of every record is a string that is not
\* empty, also for an empty response.
C19_DetailsNotEmpty ==
    step = "built" =>
        /\ built.details.type = "string"
        /\ built.details.text # <<>>

\* C24 as stated, for the texts without a JSON object: has_age_verification
\* is set by the search of the raw text for the six trigger phrases,
\* confidence_score is 0.6 if one is found and 0.4 otherwise, and details is
\* the placeholder of the final fallback.
C24_RawContentFallback ==
    (step = "built" /\ reply.isString /\ ~HasBraces(reply.content)
        /\ Len(reply.content) > 1) =>
        LET detected == Mentions(reply.content, Phrases5)
        IN /\ built.has_age_verification = JSBoolean(detected)
           /\ built.confidence_score = JSNumber(IF detected THEN 60 ELSE 40)
           /\ built.details = Str("Parsed from raw content analysis")

\* C25 as stated: where the fourth strategy gave the result, a field that
\* the patterns extracted holds the extracted value (a confidence of 0
\* included), and only a field they did not extract holds its default.
C25_DefaultsOnlyWhenMissing ==
    (step # "chat" /\ returned.attempts = <<1, 2, 3, 4>>) =>
        LET content == reply.content
            object == returned.object
            detected == Truthy(object["has_age_verification"])
        IN /\ object["confidence_score"] =
                 (IF extractConfidence(content) # JSUndefined
                  THEN extractConfidence(content)
                  ELSE JSNumber(IF detected THEN 70 ELSE 50))
           /\ object["verification_type"] =
                 (IF extractVerificationType(content) # JSUndefined
                  THEN extractVerificationType(content)
                  ELSE IF detected THEN Str("detected") ELSE Str("none"))
           /\ object["details"] =
                 (IF extractDetails(content) # JSUndefined
                  THEN extractDetails(content)
                  ELSE Str("Parsed from AI response"))

\* C26 as stated: where the fourth strategy gave the result and the text
\* writes confidence_score: v with a bare number v, the confidence returned
\* is v when 0 <= v <= 1, v / 100 when 1 < v <= 100, and the default (0.7 or
\* 0.5) when v / 100 is still above 1.
C26_ConfidenceNormalized ==
    (step # "chat" /\ returned.attempts = <<1, 2, 3, 4>>) =>
        \A v \in Decimals \cup WholeNumbers :
            (\/ includes(reply.content, <<"confidence_score", ":", SP, v>>)
             \/ includes(reply.content, <<"confidence_score", DQ, ":", SP, v>>)) =>
                returned.object["confidence_score"] =
                    (IF Hundredths(v) <= 100 THEN JSNumber(Hundredths(v))
                     ELSE IF Hundredths(v) <= 10000 THEN JSNumber(Hundredths(v) \div 100)
                     ELSE IF Truthy(returned.object["has_age_verification"])
                     THEN JSNumber(70) ELSE JSNumber(50))

\* C27 as stated: where the fourth strategy gave the result and the text
\* names no has_age_verification, a text with one of the six trigger
\* phrases of the final fallback ("over 18" and "adult content" among them)
\* gives has_age_verification true.
C27_SamePhrases ==
    (/\ step # "chat"
     /\ returned.attempts = <<1, 2, 3, 4>>
     /\ \A k \in DOMAIN reply.content :
            reply.content[k] \notin {"has_age_verification", "HAS_AGE_VERIFICATION"}
     /\ Mentions(reply.content, Phrases5)) =>
        returned.object["has_age_verification"] = JSBoolean(TRUE)

\* C28 as stated: for a text that is a valid JSON object with the four
\* fields, parseRobustJSON returns the object that JSON.parse of the text
\* gives.
C28_WellFormedKept ==
    (/\ step # "chat"
     /\ reply.isString
     /\ JSONparse(reply.content).ok
     /\ \A f \in Fields : JSONparse(reply.content).object[f] # JSUndefined) =>
        /\ returned.ok
        /\ returned.object = JSONparse(reply.content).object

(***************************************************************************)
(* The three routes and a request without websites (SpecRoutes)            *)
(***************************************************************************)
\* C21: a request whose body has no websites property, or an empty list, is
\* answered 400 by each of the three routes, and nothing has been done for
\* it: no liveness probe and no inference call (fast), no temp file, no
\* Python process, no timer and no stream event (bridge, stream).  400 is
\* the answer to such a request only.
C21_NoListRejected ==
    /\ (job.body # "no JSON" /\ N = 0) =>
          /\ main \in {"received", "done"}
          /\ results = <<>> /\ caught = NoError
          /\ ~job.tempFile /\ job.python = "none" /\ ~job.timer
          /\ job.promise = "none" /\ job.events = <<>>
          /\ response \in {"none", "400"}
          /\ job.response \in {"none", "400"}
          /\ (job.route = "fast" /\ main = "done") => response = "400"
          /\ (job.route # "fast" /\ job.at # "received") =>
                (job.at = "answered" /\ job.response = "400")
    /\ (response = "400" \/ job.response = "400") => (job.body # "no JSON" /\ N = 0)

C21_Witness ==
    /\ job.route = "stream"
    /\ job.body = "no list"
    /\ job.response = "400"

\* C22 as stated: when /api/audit has answered, temp_websites.txt is gone.
C22_TempFileRemoved ==
    (job.route = "bridge" /\ job.at = "answered") => ~job.tempFile

\* C31: the plain-text fallback (strategy 5) is reachable: the parser gives
\* up with null only after strategies 4 and 5 have been tried, so a text
\* that the first four strategies cannot read gets its result from
\* strategy 5.
C31_FallbackReached ==
    (step # "chat" /\ reply.isString /\ Len(reply.content) > 1 /\ ~returned.ok) =>
        /\ ~returned.raised
        /\ returned.attempts = <<1, 2, 3, 4, 5>>

(***************************************************************************)
(* The stream route (SpecRoutes)                                           *)
(***************************************************************************)
\* The terminal events of the stream.
Terminal(events) == {k \in DOMAIN events : events[k].type \in {"complete", "error"}}

\* C32: in /api/audit/stream no callback calls enqueue or close on the
\* stream after it has been closed, whatever the order of the timeout, the
\* 'error' event and the 'close' event.
C32_NoUseAfterClose ==
    job.route = "stream" => job.late = {}

\* C33: a closed stream of /api/audit/stream carries exactly one terminal
\* event, a 'complete' or an 'error', and a 'complete' event carries the
\* results of the output file, with processed their number.
C33_OneTerminalEvent ==
    (job.route = "stream" /\ job.closed) =>
        /\ Cardinality(Terminal(job.events)) = 1
        /\ \A k \in DOMAIN job.events :
              job.events[k].type = "complete" =>
                  /\ job.events[k].results = fileResults
                  /\ job.events[k].processed = Len(fileResults)

\* C34: when the stream of /api/audit/stream is closed, temp_websites.txt
\* has been removed.
C34_TempFileGone ==
    (job.route = "stream" /\ job.closed) => ~job.tempFile

(***************************************************************************)
(* The Python bridge (SpecRoutes)                                          *)
(***************************************************************************)
\* C35: the promise of callPythonBackend settles once.  The first of the
\* timeout, the 'close' event and the 'error' event settles it, and no
\* later event changes it.  Once the timer has fired the process has been
\* sent SIGTERM, the promise is rejected, and the request is answered 500
\* if it is answered; 200 is answered only for a resolved promise.
C35_SettlesOnce ==
    [][job.route = "bridge" =>
          /\ job.promise \in {"resolved", "rejected"} => job'.promise = job.promise
          /\ (job.promise = "pending"
                /\ (job'.python # job.python \/ job'.timer # job.timer)) =>
                job'.promise \in {"resolved", "rejected"}
          /\ job'.signal = "SIGTERM" =>
                /\ job'.python \in {"killed", "closed"}
                /\ job'.promise = "rejected"
                /\ job'.response \in {"none", "500"}
          /\ job'.response = "200" => job'.promise = "resolved"]_vars

C35_Witness ==
    /\ job.route = "bridge"
    /\ job.signal = "SIGTERM"
    /\ job.python = "closed"
    /\ job.promise = "rejected"
    /\ job.response = "500"

\* C36: two requests to /api/audit that overlap do not touch each other:
\* the process of a request reads the URLs of its own request, a request
\* answered with results has the results for its own websites, and, no
\* process failing on its own here, no request fails.
C36_Isolated ==
    \A r \in 1..2 :
        /\ pair.request[r].urls \in {0, r}
        /\ pair.request[r].python # "failed"
        /\ pair.request[r].response = "200" => pair.request[r].results = r
        /\ pair.request[r].response # "500"

C37_OneAuditEnds ==
    /\ [](page.inFlight <= 1 /\ (page.inFlight = 1 => page.isAuditing))
    /\ [][page'.inFlight < page.inFlight =>
             (~page'.isAuditing /\ page'.auditReport.set)]_vars
    /\ (page.inFlight = 1) ~> (page.inFlight = 0 /\ ~page.isAuditing
                                  /\ page.auditReport.set)

C37_Witness ==
    /\ page.inFlight = 0
    /\ ~page.isAuditing
    /\ page.auditReport.set
    /\ page.reportFrom = "api"
    /\ page.submitted # <<>>

\* C38: a report does not come back after Clear All: while the list is
\* empty and a call of startAudit still awaits its fetch (Clear All was
\* pressed in between, and no audit can have been started since), no step
\* sets an audit report.
C38_NoReportAfterClear ==
    [][(page.inFlight > 0 /\ page.websites = <<>>) => ~page'.auditReport.set]_vars

\* C39: whenever a report is displayed, the real-API flag is on exactly
\* when the report was made from an API response.
C39_IndicatorTruthful ==
    page.auditReport.set => (page.isUsingRealAPI <=> page.reportFrom = "api")

(***************************************************************************)
(* The result list                                                         *)
(***************************************************************************)
\* C29: results changes only when the wave in flight has settled as a whole,
\* and then by the push of that wave's records in the order of the input;
\* what it held before stays as it was, in place.
C29_AppendOnly ==
    [][results' # results =>
          /\ main = "wave"
          /\ Len(results) = i
          /\ \A k \in Batch(i) : pc[k] = "settled"
          /\ Len(results') = i + Cardinality(Batch(i))
          /\ \A k \in 1..Len(results) : results'[k] = results[k]
          /\ \A k \in Batch(i) : results'[k] = rec[k] /\ Matches(results'[k], websites[k])]_vars

C29_Witness ==
    /\ main = "wave"
    /\ Len(results) = batchSize
    /\ results[1].verification_type = Str("timeout")
    /\ results[2].verification_type = Str("popup")
    /\ \E k \in Batch(batchSize) : pc[k] = "settled"

\* C30 as stated: a run in which every target has been dispatched and has
\* settled, and whose records have all been collected, answers 200.
C30_CompleteSetReturned ==
    (Finished /\ N > 0 /\ Len(results) = N /\ \A k \in Idx : pc[k] = "settled") =>
        response = "200"

\* C30 amended: a run in which every target has been dispatched and has
\* settled answers 200 with all the records when the elapsed time at the
\* check after the last wave is within the budget; when it is above
\* maxTotalTime that check throws, the run ends in the outer catch and the
\* complete list of records is not returned.
C30_LastCheckDecides ==
    (Finished /\ N > 0 /\ Len(results) = N) =>
        /\ \A k \in Idx : pc[k] = "settled" /\ results[k] = rec[k]
        /\ IF BudgetExceeded(now)
           THEN caught = TimedOutMessage /\ response = "threw"
           ELSE caught = NoError /\ response = "200"

C30_Witness ==
    /\ Finished
    /\ N > batchSize
    /\ Len(results) = N
    /\ response = "threw"
    /\ \A k \in Idx : outcome[k] = "success"

(***************************************************************************)
(* The outer catch                                                         *)
(***************************************************************************)
\* C20 as stated: an exception that reaches the outer catch is answered with
\* status 408 when it is the budget's error and with status 500 otherwise.
C20_ErrorAnswered ==
    caught # NoError =>
        response = (IF includes(caught, TimedOut) THEN "408" ELSE "500")

====
